---- MODULE Spec2Model ----
(***************************************************************************)
(* Model of the completion engine of the Slint language server            *)
(* (tools/lsp/language/completion.rs).                                     *)
(*                                                                         *)
(* completion_at is a synchronous function of the document store, the      *)
(* token under the cursor, the cursor offset and the client's snippet      *)
(* capability.  The state is the document store, the request being served  *)
(* and the answer.  Init draws the store and the request from bounded      *)
(* sets; the action CompletionAt applies completion_at to them.  Between   *)
(* two requests the editor may send another request or apply the import    *)
(* edit of a candidate, after which the server reloads the document.       *)
(*                                                                         *)
(* The live preview (tools/lsp/preview.rs) is a second state machine over  *)
(* its own variables: the content cache, the loading state and the tasks   *)
(* of the UI thread.  PreviewSpec runs the preview alone, Spec the         *)
(* completion engine alone.                                                *)
(***************************************************************************)
EXTENDS Integers, Sequences, FiniteSets, TLC

VARIABLES documents, request, result, pc, served, accepted

\* the preview: the fields of the content cache, whether CONTENT_CACHE is
\* initialised, the tasks of the UI thread, the style and the layout of the
\* UI, the component the preview area shows, the panic that poisoned the
\* mutex and the number of calls made
VARIABLES cache_init, source_code, dependency, current, config, loading_state,
          ui_is_visible, tasks, current_style, show_preview_ui, preview_area,
          panicked, calls

pvars == <<cache_init, source_code, dependency, current, config, loading_state,
           ui_is_visible, tasks, current_style, show_preview_ui, preview_area,
           panicked, calls>>

vars == <<documents, request, result, pc, served, accepted, pvars>>

(***************************************************************************)
(* Bounds of the model.                                                    *)
(***************************************************************************)
\* longest list of in-source property declarations of one element
MaxDecls == 2
\* longest token sequence of a qualified name
MaxQNameLen == 4
\* largest cursor offset (and text position) drawn
MaxOffset == 3
\* longest sequence of requests served in one behaviour
MaxRequests == 2
\* most comment and whitespace tokens before the first component
MaxLeading == 3
\* most calls of the preview's functions in one behaviour
MaxCalls == 4

(***************************************************************************)
(* Option<T>, Option<String> and sequence helpers.                         *)
(***************************************************************************)
None == [some |-> FALSE, val |-> <<>>]

Some(v) == [some |-> TRUE, val |-> v]

\* the None of an Option<String> / Option<InsertTextFormat> field of an item
NoText == "<none>"

NoKind == "<nokind>"

SNIPPET == "SNIPPET"

RECURSIVE SeqsUpTo(_, _)
SeqsUpTo(S, n) ==
    IF n = 0 THEN {<<>>}
    ELSE LET shorter == SeqsUpTo(S, n - 1)
         IN  shorter \cup {Append(s, x) : s \in {t \in shorter : Len(t) = n - 1}, x \in S}

SelectKind(items, k) == SelectSeq(items, LAMBDA ce : ce.kind = k)

RECURSIVE FlattenSeq(_)
FlattenSeq(ss) == IF ss = <<>> THEN <<>> ELSE Head(ss) \o FlattenSeq(Tail(ss))

Labels(items) == {items[i].label : i \in DOMAIN items}

(***************************************************************************)
(* lsp_types::CompletionItem.                                              *)
(***************************************************************************)
\* CompletionItem::default(): every optional field absent
DefaultItem ==
    [label |-> "", detail |-> NoText, kind |-> NoKind, insert_text |-> NoText,
     insert_text_format |-> NoText, filter_text |-> NoText,
     additional_text_edits |-> <<>>]

\* CompletionItem::new_simple(label, detail)
new_simple(label, detail) == [DefaultItem EXCEPT !.label = label, !.detail = detail]

WithKind(c, k) == [c EXCEPT !.kind = k]

\* with_insert_text that ignores the client capability
with_insert_text_always(c, ins_text, snippet_support) ==
    [c EXCEPT !.insert_text_format = SNIPPET, !.insert_text = ins_text]

\* fn with_insert_text
with_insert_text(c, ins_text, snippet_support) ==
    IF snippet_support
    THEN [c EXCEPT !.insert_text_format = SNIPPET, !.insert_text = ins_text]
    ELSE c

\* a keyword table (label, snippet body) turned into KEYWORD items
KeywordItems(table, snippet_support) ==
    [i \in DOMAIN table |->
        with_insert_text(WithKind(new_simple(table[i][1], ""), "KEYWORD"),
                         table[i][2], snippet_support)]

\* i_slint_compiler::parser::normalize_identifier: '_' is folded into '-'
\* (identifiers are drawn from the names below)
normalize_identifier(s) ==
    CASE s = "beta_gamma" -> "beta-gamma"
      [] s = "b_r" -> "b-r"
      [] OTHER -> s

\* Type::Callback{..} | Type::InferredCallback, on the rendered type
IsCallbackType(t) == t \in {"callback", "inferred-callback"}

IsFunctionType(t) == t = "function"

(***************************************************************************)
(* The document store (DocumentCache): the global type registry and the    *)
(* known documents, each with its local registry, its export table, its    *)
(* import statements and the leading tokens of its syntax tree.            *)
(***************************************************************************)
MainFile == "main.slint"

\* a file that is not in the store
UnknownFile == "unsaved.slint"

\* a file's path: whether it is a builtin:/ path, its directory below the
\* project root and its file name
FilePath(f) ==
    CASE f = "main.slint" -> [builtin |-> FALSE, dir |-> <<"ui">>, name |-> "main.slint"]
      [] f = "lib.slint" -> [builtin |-> FALSE, dir |-> <<"ui">>, name |-> "lib.slint"]
      [] f = "other.slint" -> [builtin |-> FALSE, dir |-> <<"ui", "sub">>, name |-> "other.slint"]
      [] f = "top.slint" -> [builtin |-> FALSE, dir |-> <<>>, name |-> "top.slint"]
      [] f = "std-widgets.slint" -> [builtin |-> TRUE, dir |-> <<>>, name |-> "std-widgets.slint"]
      [] f = "core.slint" -> [builtin |-> TRUE, dir |-> <<>>, name |-> "core.slint"]
      [] OTHER -> [builtin |-> FALSE, dir |-> <<"ui">>, name |-> f]

ElemEntry(name, k, is_global, is_internal) ==
    [name |-> name, k |-> k, is_global |-> is_global, is_internal |-> is_internal]

TypeEntry(name, is_property_type) == [name |-> name, is_property_type |-> is_property_type]

\* the registry of the builtin elements and types
GlobalRegistry ==
    [elements |-> <<ElemEntry("Text", "Builtin", FALSE, FALSE),
                    ElemEntry("Empty", "Builtin", FALSE, TRUE),
                    ElemEntry("TextInputInterface", "Builtin", TRUE, FALSE)>>,
     types |-> <<TypeEntry("int", TRUE), TypeEntry("void", FALSE)>>]

\* the registry of main.slint: the builtins and the components it declares
LocalRegistry ==
    [elements |-> GlobalRegistry.elements \o
                  <<ElemEntry("Bar", "Component", FALSE, FALSE),
                    ElemEntry("Glib", "Component", TRUE, FALSE)>>,
     types |-> GlobalRegistry.types \o <<TypeEntry("S1", TRUE)>>]

EmptyRegistry == [elements |-> <<>>, types |-> <<>>]

Export(name, k) == [name |-> name, k |-> k]

Import(file, has_ids, last_id_end, end) ==
    [file |-> file, has_ids |-> has_ids, last_id_end |-> last_id_end, end |-> end]

Tok(kind, text, start) == [kind |-> kind, text |-> text, start |-> start]

NoDoc ==
    [present |-> FALSE, has_node |-> FALSE, local_registry |-> EmptyRegistry,
     exports |-> <<>>, imports |-> <<>>, leading |-> <<>>, line_starts |-> <<0>>]

LibDoc(exports) ==
    [NoDoc EXCEPT !.present = TRUE, !.has_node = TRUE, !.exports = exports]

\* main.slint, with its import statements and the first tokens of its tree
MainDoc(imports, leading, line_starts) ==
    [present |-> TRUE, has_node |-> TRUE, local_registry |-> LocalRegistry,
     exports |-> <<Export("Bar", "Component")>>, imports |-> imports,
     leading |-> leading, line_starts |-> line_starts]

\* the variants of main.slint: without import, with one import from
\* lib.slint, with an import from std-widgets.slint that has no identifier,
\* with an import from lib.slint written "./lib.slint"
MainDocs ==
    { MainDoc(<<>>, <<Tok("Comment", "//a", 0), Tok("Whitespace", "\n", 3),
                      Tok("Component", "", 4)>>, <<0, 4>>),
      MainDoc(<<>>, <<Tok("Comment", "//a", 0), Tok("Whitespace", "\n\n", 3),
                      Tok("Comment", "//b", 5), Tok("Whitespace", "\n", 8),
                      Tok("Component", "", 9)>>, <<0, 4, 5, 9>>),
      MainDoc(<<Import("lib.slint", TRUE, 10, 30)>>,
              <<Tok("ImportSpecifier", "", 0), Tok("Whitespace", "\n", 30),
                Tok("Component", "", 31)>>, <<0, 31>>),
      MainDoc(<<Import("std-widgets.slint", FALSE, 0, 27),
                Import("sub/other.slint", TRUE, 38, 64)>>,
              <<Tok("ImportSpecifier", "", 0), Tok("Whitespace", "\n", 27),
                Tok("ImportSpecifier", "", 28), Tok("Component", "", 64)>>, <<0, 28>>),
      MainDoc(<<Import("./lib.slint", TRUE, 10, 32)>>,
              <<Tok("ImportSpecifier", "", 0), Tok("Whitespace", "\n", 32),
                Tok("Component", "", 33)>>, <<0, 33>>),
      NoDoc,
      [MainDoc(<<>>, <<>>, <<0>>) EXCEPT !.has_node = FALSE] }

\* the tokens a document without import may start with: comments, single
\* newlines, blank lines, a newline followed by an indentation
LeadingKinds == {"Comment", "Newline", "Blank", "Indent"}

LeadingToken(k, start) ==
    CASE k = "Comment" -> Tok("Comment", "//a", start)
      [] k = "Newline" -> Tok("Whitespace", "\n", start)
      [] k = "Blank" -> Tok("Whitespace", "\n\n", start)
      [] OTHER -> Tok("Whitespace", "\n ", start)

LeadingLen(k) == CASE k = "Comment" -> 3 [] k = "Newline" -> 1 [] OTHER -> 2

\* the tokens of the kinds, one after the other, then the first component
RECURSIVE LeadingFrom(_, _)
LeadingFrom(kinds, start) ==
    IF kinds = <<>> THEN <<Tok("Component", "", start)>>
    ELSE <<LeadingToken(Head(kinds), start)>>
         \o LeadingFrom(Tail(kinds), start + LeadingLen(Head(kinds)))

\* the offsets at which the lines begin: after each newline
RECURSIVE LineStartsFrom(_, _)
LineStartsFrom(kinds, start) ==
    IF kinds = <<>> THEN {}
    ELSE (CASE Head(kinds) = "Comment" -> {}
            [] Head(kinds) = "Blank" -> {start + 1, start + 2}
            [] OTHER -> {start + 1})
         \cup LineStartsFrom(Tail(kinds), start + LeadingLen(Head(kinds)))

\* the lexer yields no two whitespace tokens in a row
Lexed(kinds) ==
    \A i \in 1..(Len(kinds) - 1) : kinds[i] = "Comment" \/ kinds[i + 1] = "Comment"

\* main.slint without import, for each start of the file
LeadingDocs ==
    {[MainDoc(<<>>, LeadingFrom(ks, 0), <<0>>) EXCEPT
         !.line_starts = [i \in 1..(1 + Cardinality(LineStartsFrom(ks, 0))) |->
                            IF i = 1 THEN 0
                            ELSE CHOOSE x \in LineStartsFrom(ks, 0) :
                                    Cardinality({y \in LineStartsFrom(ks, 0) : y < x}) = i - 2]] :
     ks \in {k \in SeqsUpTo(LeadingKinds, MaxLeading) : Lexed(k)}}

AllFiles == <<"main.slint", "lib.slint", "other.slint", "std-widgets.slint", "core.slint">>

Store(main) ==
    [global_type_registry |-> GlobalRegistry,
     files |-> AllFiles,
     docs |-> [f \in {AllFiles[i] : i \in DOMAIN AllFiles} |->
                CASE f = "main.slint" -> main
                  [] f = "lib.slint" ->
                        LibDoc(<<Export("Button", "Component"), Export("Bar", "Component"),
                                 Export("Glob", "GlobalComponent"), Export("S2", "Type")>>)
                  [] f = "other.slint" ->
                        LibDoc(<<Export("Button", "Component"), Export("Slider", "Component")>>)
                  [] f = "std-widgets.slint" -> LibDoc(<<Export("LineEdit", "Component")>>)
                  [] OTHER -> LibDoc(<<Export("Hidden", "Component")>>)]]

Stores == {Store(m) : m \in MainDocs}

DefaultStore == Store(CHOOSE m \in MainDocs : m.present /\ m.imports = <<>> /\ Len(m.leading) = 3)

\* documents.get_document(path)
get_document(dc, file) ==
    IF file \in DOMAIN dc.docs /\ dc.docs[file].present THEN Some(dc.docs[file]) ELSE None

\* the registry consulted for a token of `file`: the document's local
\* registry, or the global registry when the store has no such document
RegistryFor(dc, file) ==
    IF get_document(dc, file).some
    THEN get_document(dc, file).val.local_registry
    ELSE dc.global_type_registry

\* ElementType::Component(c) if !c.is_global(), or
\* ElementType::Builtin(b) if !b.is_internal && !b.is_global
IsVisibleClass(e) ==
    \/ e.k = "Component" /\ ~e.is_global
    \/ e.k = "Builtin" /\ ~e.is_internal /\ ~e.is_global

ClassItem(e) == WithKind(new_simple(e.name, "element"), "CLASS")

\* tr.all_elements() filtered to the visible classes, as CLASS items
ClassItems(tr) ==
    LET vis == SelectSeq(tr.elements, IsVisibleClass)
    IN  [i \in DOMAIN vis |-> ClassItem(vis[i])]

(***************************************************************************)
(* Elements of the syntax tree and their resolved types.                   *)
(***************************************************************************)
Prop(name, ty) == [name |-> name, ty |-> ty]

ElementType(k, props) == [k |-> k, props |-> props]

\* ElementType::default()
ErrorType == ElementType("Error", <<>>)

GlobalType == ElementType("Global", <<>>)

BarType ==
    ElementType("Component",
                <<Prop("text", "string"), Prop("red", "string"),
                  Prop("clicked", "callback")>>)

TextType == ElementType("Builtin", <<Prop("text", "string")>>)

\* i_slint_compiler::typeregister::reserved_properties()
reserved_properties ==
    <<Prop("width", "length"), Prop("init", "callback"), Prop("focus", "function")>>

\* util::lookup_current_element_type: the element's own type record, if it
\* resolves
lookup_current_element_type(element, tr) == element.resolved

unwrap_or_default(opt, default) == IF opt.some THEN opt.val ELSE default

\* an item of a (name, type) pair: METHOD for a callback type, else PROPERTY
TypedItem(p) ==
    WithKind(new_simple(p.name, p.ty),
             IF IsCallbackType(p.ty) THEN "METHOD" ELSE "PROPERTY")

\* the item of a PropertyDeclaration of the element's source
PropertyDeclarationItem(pr) ==
    WithKind(new_simple(IF pr.name = NoText THEN "" ELSE normalize_identifier(pr.name),
                        IF pr.ty = NoText THEN "property" ELSE pr.ty),
             "PROPERTY")

\* the item of a CallbackDeclaration of the element's source
CallbackDeclarationItem(cd) ==
    WithKind(new_simple(IF cd = NoText THEN "" ELSE normalize_identifier(cd), "callback"),
             "METHOD")

\* the reserved properties that are not functions, as items
ReservedItems ==
    LET kept == SelectSeq(reserved_properties, LAMBDA p : ~IsFunctionType(p.ty))
    IN  [i \in DOMAIN kept |-> TypedItem(kept[i])]

\* resolve_element_scope without the class names of the registry
resolve_element_scope_noclasses(element, dc, file) ==
    LET tr == RegistryFor(dc, file)
        element_type == unwrap_or_default(lookup_current_element_type(element, tr), ErrorType)
        pl == element_type.props
    IN  Some([i \in DOMAIN pl |-> TypedItem(pl[i])]
             \o [i \in DOMAIN element.props |-> PropertyDeclarationItem(element.props[i])]
             \o [i \in DOMAIN element.cbs |-> CallbackDeclarationItem(element.cbs[i])]
             \o (IF element_type.k # "Global" THEN ReservedItems ELSE <<>>))

\* fn resolve_element_scope
resolve_element_scope(element, dc, file) ==
    LET tr == RegistryFor(dc, file)
        element_type == unwrap_or_default(lookup_current_element_type(element, tr), ErrorType)
        pl == element_type.props
    IN  Some([i \in DOMAIN pl |-> TypedItem(pl[i])]
             \o [i \in DOMAIN element.props |-> PropertyDeclarationItem(element.props[i])]
             \o [i \in DOMAIN element.cbs |-> CallbackDeclarationItem(element.cbs[i])]
             \o (IF element_type.k # "Global"
                 THEN ReservedItems \o ClassItems(tr) ELSE <<>>))

\* fn is_followed_by_brace, on the kinds of the tokens after the token
RECURSIVE is_followed_by_brace(_)
is_followed_by_brace(next) ==
    IF next = <<>> THEN FALSE
    ELSE IF Head(next) = "Whitespace" THEN is_followed_by_brace(Tail(next))
    ELSE Head(next) = "LBrace"

(***************************************************************************)
(* Import synthesis (add_components_to_import).                            *)
(***************************************************************************)
Position(line, character) == [line |-> line, character |-> character]

TextEdit(pos, new_text) == [range_start |-> pos, range_end |-> pos, new_text |-> new_text]

\* util::map_position: the line/column of an offset, from the offsets at
\* which the lines of the file start
map_position(doc, offset) ==
    LET before == {i \in DOMAIN doc.line_starts : doc.line_starts[i] <= offset}
        line == CHOOSE i \in before : \A j \in before : j <= i
    IN  Position(line - 1, offset - doc.line_starts[line])

\* the position recorded in import_locations for `file`: just after the last
\* identifier of the last import statement of that file that has one
import_location(doc, file) ==
    LET idx == {i \in DOMAIN doc.imports : doc.imports[i].has_ids /\ doc.imports[i].file = file}
        last_i == CHOOSE i \in idx : \A j \in idx : j <= i
    IN  IF idx = {} THEN None
        ELSE Some(map_position(doc, doc.imports[last_i].last_id_end))

\* the loop in which no whitespace resets the offset
RECURSIVE first_token_offset_noreset(_, _)
first_token_offset_noreset(leading, offset) ==
    IF leading = <<>> THEN unwrap_or_default(offset, 0)
    ELSE LET it == Head(leading)
         IN  CASE it.kind = "Comment" ->
                    first_token_offset_noreset(Tail(leading),
                                               IF offset.some THEN offset ELSE Some(it.start))
               [] it.kind = "Whitespace" -> first_token_offset_noreset(Tail(leading), offset)
               [] OTHER -> IF offset.some THEN offset.val ELSE it.start

\* the loop over the document's children when there is no import: the start
\* of the run of comments before the first other token
RECURSIVE first_token_offset(_, _)
first_token_offset(leading, offset) ==
    IF leading = <<>> THEN unwrap_or_default(offset, 0)
    ELSE LET it == Head(leading)
         IN  CASE it.kind = "Comment" ->
                    first_token_offset(Tail(leading),
                                       IF offset.some THEN offset ELSE Some(it.start))
               [] it.kind = "Whitespace" ->
                    first_token_offset(Tail(leading),
                                       IF it.text # "\n" THEN None ELSE offset)
               [] OTHER -> IF offset.some THEN offset.val ELSE it.start

new_import_position(doc) ==
    LET last == IF doc.imports = <<>> THEN 0 ELSE doc.imports[Len(doc.imports)].end
    IN  IF last = 0
        THEN map_position(doc, first_token_offset(doc.leading, None))
        ELSE Position(map_position(doc, last).line + 1, 0)

RECURSIVE JoinPath(_)
JoinPath(segs) == IF segs = <<>> THEN "" ELSE Head(segs) \o "/" \o JoinPath(Tail(segs))

RECURSIVE CommonPrefixLen(_, _)
CommonPrefixLen(a, b) ==
    IF a = <<>> \/ b = <<>> \/ Head(a) # Head(b) THEN 0
    ELSE 1 + CommonPrefixLen(Tail(a), Tail(b))

\* Url::make_relative between two file URLs
make_relative(base, target) ==
    LET n == CommonPrefixLen(base.dir, target.dir)
        ups == [i \in 1..(Len(base.dir) - n) |-> ".."]
    IN  JoinPath(ups \o SubSeq(target.dir, n + 1, Len(target.dir))) \o target.name

\* the import source of a known file: None when the file is skipped
import_source(current_file, file) ==
    IF FilePath(file).builtin
    THEN IF FilePath(file).name = "std-widgets.slint" THEN Some("std-widgets.slint") ELSE None
    ELSE Some(make_relative(FilePath(current_file), FilePath(file)))

\* the exports (name, kind, import source, path of the exporting file) in
\* the order of the scan
ExportScan(dc, current_file) ==
    FlattenSeq([j \in DOMAIN dc.files |->
        LET doc == get_document(dc, dc.files[j])
            src == import_source(current_file, dc.files[j])
        IN  IF ~doc.some \/ ~src.some THEN <<>>
            ELSE [i \in DOMAIN doc.val.exports |->
                    [name |-> doc.val.exports[i].name, k |-> doc.val.exports[i].k,
                     file |-> src.val, path |-> dc.files[j]]]])

\* the item pushed for an importable component
ImportItem(e, doc, followed_by_brace) ==
    LET loc == import_location(doc, e.file)
        the_import ==
            IF loc.some
            THEN TextEdit(loc.val, ", " \o e.name)
            ELSE TextEdit(new_import_position(doc),
                          "import { " \o e.name \o " } from \"" \o e.file \o "\";\n")
    IN  [label |-> e.name \o " (import from \"" \o e.file \o "\")",
         insert_text |-> IF followed_by_brace THEN e.name ELSE e.name \o " {$1}",
         insert_text_format |-> SNIPPET,
         filter_text |-> e.name,
         kind |-> "CLASS",
         detail |-> "(import from \"" \o e.file \o "\")",
         additional_text_edits |-> <<the_import>>]

\* the loop that does not record the names it has offered
RECURSIVE import_scan_forgetful(_, _, _, _, _)
import_scan_forgetful(scan, available_types, doc, followed_by_brace, res) ==
    IF scan = <<>> THEN res
    ELSE LET e == Head(scan)
         IN  IF e.name \in available_types \/ e.k # "Component"
             THEN import_scan_forgetful(Tail(scan), available_types, doc,
                                        followed_by_brace, res)
             ELSE import_scan_forgetful(Tail(scan), available_types, doc,
                                        followed_by_brace,
                                        Append(res, ImportItem(e, doc, followed_by_brace)))

\* the loop over all files and their exports
RECURSIVE import_scan(_, _, _, _, _)
import_scan(scan, available_types, doc, followed_by_brace, res) ==
    IF scan = <<>> THEN res
    ELSE LET e == Head(scan)
         IN  IF e.name \in available_types \/ e.k # "Component"
             THEN import_scan(Tail(scan), available_types, doc, followed_by_brace, res)
             ELSE import_scan(Tail(scan), available_types \cup {e.name}, doc,
                              followed_by_brace,
                              Append(res, ImportItem(e, doc, followed_by_brace)))

\* the import synthesis that takes no type for available
add_components_to_import_unfiltered(token, dc, available_types, res) ==
    LET current_doc == get_document(dc, token.file)
    IN  IF ~current_doc.some \/ ~current_doc.val.has_node THEN res
        ELSE import_scan(ExportScan(dc, token.file), {}, current_doc.val,
                         is_followed_by_brace(token.next), res)

\* fn add_components_to_import: the list with the import candidates added
add_components_to_import(token, dc, available_types, res) ==
    LET current_doc == get_document(dc, token.file)
    IN  IF ~current_doc.some \/ ~current_doc.val.has_node THEN res
        ELSE import_scan(ExportScan(dc, token.file), available_types, current_doc.val,
                         is_followed_by_brace(token.next), res)

(***************************************************************************)
(* The editor applies the import edit of an accepted candidate and the     *)
(* server reloads the document: the text moves, the import statement is    *)
(* part of the tree and the component is in the document's registry.       *)
(***************************************************************************)
\* the number of characters of the names and import sources of the store
StrLen(s) ==
    CASE s \in {"Bar"} -> 3
      [] s \in {"Button", "Slider", "Hidden"} -> 6
      [] s = "LineEdit" -> 8
      [] s = "lib.slint" -> 9
      [] s = "sub/other.slint" -> 15
      [] s = "std-widgets.slint" -> 17
      [] OTHER -> 1

\* whether the document has the line of the position
has_position(doc, pos) == pos.line + 1 \in DOMAIN doc.line_starts

\* the offset of a line/column position
offset_of(doc, pos) == doc.line_starts[pos.line + 1] + pos.character

Shift(x, at, w) == IF x >= at THEN x + w ELSE x

\* the sorted sequence of a set of numbers
RECURSIVE SortedSeq(_)
SortedSeq(S) ==
    IF S = {} THEN <<>>
    ELSE LET m == CHOOSE x \in S : \A y \in S : x <= y
         IN  <<m>> \o SortedSeq(S \ {m})

\* the registry after the reload: the imported component is an element of it
with_imported(tr, name) ==
    [tr EXCEPT !.elements = Append(tr.elements, ElemEntry(name, "Component", FALSE, FALSE))]

\* the document after `, Name` was inserted after the last identifier of
\* the import statement that import_locations names for the source
after_append_edit(doc, e, at) ==
    LET w == 2 + StrLen(e.name)
    IN  [doc EXCEPT
           !.imports = [i \in DOMAIN doc.imports |->
                          [doc.imports[i] EXCEPT
                             !.last_id_end =
                                 IF doc.imports[i].has_ids THEN Shift(@, at, w) ELSE @,
                             !.end = Shift(@, at, w)]],
           !.leading = [i \in DOMAIN doc.leading |->
                          [doc.leading[i] EXCEPT !.start = Shift(@, at, w)]],
           !.line_starts = [i \in DOMAIN doc.line_starts |-> Shift(doc.line_starts[i], at, w)],
           !.local_registry = with_imported(@, e.name)]

\* the document after a new import statement was inserted at offset `at`
after_new_statement(doc, e, at) ==
    LET w == 21 + StrLen(e.name) + StrLen(e.file)
        before == SelectSeq(doc.leading, LAMBDA t : t.start < at)
        after == SelectSeq(doc.leading, LAMBDA t : t.start >= at)
    IN  [doc EXCEPT
           !.imports = Append(doc.imports,
                              Import(e.file, TRUE, at + 9 + StrLen(e.name), at + w - 1)),
           !.leading = before
                       \o <<Tok("ImportSpecifier", "", at), Tok("Whitespace", "\n", at + w - 1)>>
                       \o [i \in DOMAIN after |-> [after[i] EXCEPT !.start = @ + w]],
           !.line_starts =
               SortedSeq({IF x > at THEN x + w ELSE x :
                              x \in {doc.line_starts[i] : i \in DOMAIN doc.line_starts}}
                         \cup {at + w}),
           !.local_registry = with_imported(@, e.name)]

\* the document after the additional text edit of the import candidate of
\* the exported component `e` was applied
after_import_edit(doc, e) ==
    LET edit == ImportItem(e, doc, FALSE).additional_text_edits[1]
        at == offset_of(doc, edit.range_start)
    IN  IF import_location(doc, e.file).some
        THEN after_append_edit(doc, e, at)
        ELSE after_new_statement(doc, e, at)

(***************************************************************************)
(* Expression scope: the lookup objects and resolve_expression_scope.      *)
(***************************************************************************)
Entry(name, form, expr, ty) == [name |-> name, form |-> form, expr |-> expr, ty |-> ty]

\* the parameters declared by the callback or function whose body the lookup
\* context belongs to, as spelled in the source: `c(param) => { }` and
\* `function xxx(beta_gamma: string) { }`
DeclaredParameters(ctx) ==
    CASE ctx = "handler" -> <<[name |-> "param", ty |-> "S1"]>>
      [] ctx = "function" -> <<[name |-> "beta_gamma", ty |-> "string"]>>
      [] OTHER -> <<>>

\* for_each_entry of the lookup object reached by `path` from the global
\* lookup object, under lookup context `ctx`.  The context is that of an
\* expression in the element `bobo := Bar { property <int> beta; }` of a
\* component declaring `property <int> alpha` and `function funi()`; in a
\* callback handler or a function body the declared parameters come first,
\* under their normalized names
Members(ctx, path) ==
    CASE path = <<>> ->
            [i \in DOMAIN DeclaredParameters(ctx) |->
                Entry(normalize_identifier(DeclaredParameters(ctx)[i].name), "Expression",
                      "FunctionParameterReference", DeclaredParameters(ctx)[i].ty)]
            \o <<Entry("self", "Expression", "ElementReference", "element ref"),
                 Entry("root", "Expression", "ElementReference", "element ref"),
                 Entry("bobo", "Expression", "ElementReference", "element ref"),
                 Entry("alpha", "Expression", "PropertyReference", "int"),
                 Entry("beta", "Expression", "PropertyReference", "int"),
                 Entry("funi", "Expression", "FunctionReference", "function"),
                 Entry("b-r", "Expression", "PropertyReference", "int"),
                 Entry("true", "Expression", "BoolLiteral", "bool"),
                 Entry("TextWrap", "Enumeration", "", "TextWrap"),
                 Entry("Math", "Namespace", "", ""),
                 Entry("SlintInternal", "Namespace", "", "")>>
      [] path = <<"param">> /\ ctx = "handler" ->
            <<Entry("foo", "Expression", "StructFieldAccess", "int"),
              Entry("bar", "Expression", "StructFieldAccess", "{ xx: int,yy: string,}")>>
      [] path = <<"param", "bar">> /\ ctx = "handler" ->
            <<Entry("xx", "Expression", "StructFieldAccess", "int"),
              Entry("yy", "Expression", "StructFieldAccess", "string")>>
      [] path = <<"Math">> ->
            <<Entry("abs", "Expression", "BuiltinFunctionReference", "function")>>
      [] path = <<"TextWrap">> ->
            <<Entry("no-wrap", "Expression", "EnumerationValue", "TextWrap")>>
      [] OTHER -> <<>>

\* LookupObject::lookup of `name` in the object reached by `path`
lookup(ctx, path, name) ==
    IF \E i \in DOMAIN Members(ctx, path) : Members(ctx, path)[i].name = name
    THEN Some(Append(path, name))
    ELSE None

\* the kinds that leave a parameter reference without a kind
ExpressionKind_noparam(expr) ==
    CASE expr = "BoolLiteral" -> "CONSTANT"
      [] expr = "CallbackReference" -> "METHOD"
      [] expr = "FunctionReference" -> "FUNCTION"
      [] expr = "PropertyReference" -> "PROPERTY"
      [] expr = "BuiltinFunctionReference" -> "FUNCTION"
      [] expr = "BuiltinMacroReference" -> "FUNCTION"
      [] expr = "ElementReference" -> "CLASS"
      [] expr = "RepeaterIndexReference" -> "VARIABLE"
      [] expr = "RepeaterModelReference" -> "VARIABLE"
      [] expr = "Cast" -> "CONSTANT"
      [] expr = "EasingCurve" -> "CONSTANT"
      [] expr = "EnumerationValue" -> "ENUM_MEMBER"
      [] OTHER -> NoKind

\* the CompletionItemKind of an expression
ExpressionKind(expr) ==
    CASE expr = "BoolLiteral" -> "CONSTANT"
      [] expr = "CallbackReference" -> "METHOD"
      [] expr = "FunctionReference" -> "FUNCTION"
      [] expr = "PropertyReference" -> "PROPERTY"
      [] expr = "BuiltinFunctionReference" -> "FUNCTION"
      [] expr = "BuiltinMacroReference" -> "FUNCTION"
      [] expr = "ElementReference" -> "CLASS"
      [] expr = "RepeaterIndexReference" -> "VARIABLE"
      [] expr = "RepeaterModelReference" -> "VARIABLE"
      [] expr = "FunctionParameterReference" -> "VARIABLE"
      [] expr = "Cast" -> "CONSTANT"
      [] expr = "EasingCurve" -> "CONSTANT"
      [] expr = "EnumerationValue" -> "ENUM_MEMBER"
      [] OTHER -> NoKind

\* fn completion_item_from_expression
completion_item_from_expression(str, lookup_result) ==
    CASE lookup_result.form = "Expression" ->
            WithKind(new_simple(str, lookup_result.ty), ExpressionKind(lookup_result.expr))
      [] lookup_result.form = "Enumeration" ->
            WithKind(new_simple(str, lookup_result.ty), "ENUM")
      [] OTHER -> [DefaultItem EXCEPT !.label = str, !.kind = "MODULE"]

\* the items of every entry of a lookup object
EntryItems(entries) ==
    [i \in DOMAIN entries |-> completion_item_from_expression(entries[i].name, entries[i])]

\* the expression scope with the properties of the element's type added
resolve_expression_scope_with_type(lookup_context) ==
    Some(EntryItems(SelectSeq(Members(lookup_context, <<>>),
                              LAMBDA e : e.name # "SlintInternal"))
         \o [i \in DOMAIN BarType.props |-> TypedItem(BarType.props[i])])

\* fn resolve_expression_scope
resolve_expression_scope(lookup_context) ==
    Some(EntryItems(SelectSeq(Members(lookup_context, <<>>),
                              LAMBDA e : e.name # "SlintInternal")))

\* util::with_lookup_ctx followed by `?`: None when no lookup context can be
\* built for the node, else the value computed under the context
with_lookup_ctx(ctx, value) == IF ctx = "none" THEN None ELSE value

\* fn resolve_type_scope
resolve_type_scope(token, dc) ==
    LET tr == RegistryFor(dc, token.file)
        kept == SelectSeq(tr.types, LAMBDA t : t.is_property_type)
    IN  Some([i \in DOMAIN kept |-> WithKind(new_simple(kept[i].name, ""), "TYPE_PARAMETER")])

(***************************************************************************)
(* Path completion (complete_path_in_string).                              *)
(***************************************************************************)
DirEntry(name, is_dir, readable) == [name |-> name, is_dir |-> is_dir, readable |-> readable]

\* std::fs::read_dir of the directory named by the text before the last
\* slash, joined to the base directory of the importing file
read_dir(prefix) ==
    CASE prefix = <<>> ->
            Some(<<DirEntry("lib.slint", FALSE, TRUE), DirEntry("s", TRUE, TRUE),
                   DirEntry("bad", FALSE, FALSE)>>)
      [] prefix \in {<<"s">>, <<"s", "/">>} -> Some(<<DirEntry("x.png", FALSE, TRUE)>>)
      [] prefix \in {<<"/">>, <<"/", "/">>} -> Some(<<DirEntry("ui", TRUE, TRUE)>>)
      [] OTHER -> None

PathItem(e) ==
    IF e.is_dir
    THEN [WithKind(new_simple(e.name, ""), "FOLDER") EXCEPT !.insert_text = e.name \o "/"]
    ELSE WithKind(new_simple(e.name, ""), "FILE")

\* the path completion that takes an offset of 0 as well
complete_path_in_string_at_zero(text, offset) ==
    IF offset > Len(text) THEN None
    ELSE IF text = <<>> \/ Head(text) # "\"" THEN None
    ELSE LET t == SubSeq(Tail(text), 1, offset - 1)
             slashes == {i \in DOMAIN t : t[i] = "/"}
             last_slash == CHOOSE i \in slashes : \A j \in slashes : j <= i
             dir == read_dir(IF slashes # {} THEN SubSeq(t, 1, last_slash - 1) ELSE <<>>)
         IN  IF ~dir.some THEN None
             ELSE LET ok == SelectSeq(dir.val, LAMBDA e : e.readable)
                  IN  Some([i \in DOMAIN ok |-> PathItem(ok[i])])

\* fn complete_path_in_string; `text` is the token's text as characters
complete_path_in_string(text, offset) ==
    IF offset > Len(text) \/ offset = 0 THEN None
    ELSE IF Head(text) # "\"" THEN None
    ELSE LET t == SubSeq(Tail(text), 1, offset - 1)
             slashes == {i \in DOMAIN t : t[i] = "/"}
             last_slash == CHOOSE i \in slashes : \A j \in slashes : j <= i
             dir == read_dir(IF slashes # {} THEN SubSeq(t, 1, last_slash - 1) ELSE <<>>)
         IN  IF ~dir.some THEN None
             ELSE LET ok == SelectSeq(dir.val, LAMBDA e : e.readable)
                  IN  Some([i \in DOMAIN ok |-> PathItem(ok[i])])

\* completion_at, lines 36-53: a string literal of an import or image url
PathBranch(req) ==
    IF req.offset < req.token.start THEN None
    ELSE LET r == complete_path_in_string(req.token.text, req.offset - req.token.start)
         IN  IF ~r.some THEN None
             ELSE IF req.node.kind = "ImportSpecifier"
                     /\ \A i \in DOMAIN req.token.text : req.token.text[i] # "/"
                  THEN Some(Append(r.val, WithKind(new_simple("std-widgets.slint", ""), "FILE")))
                  ELSE r

(***************************************************************************)
(* The contexts of completion_at.                                          *)
(***************************************************************************)
\* token is `@`, or an identifier right after `@`
IsAtTrigger(token) ==
    token.kind = "At" \/ (token.kind = "Identifier" /\ token.prev_at)

DeclarationKeywords ==
    <<<<"property", "property <${1:int}> ${2:name};">>,
      <<"in property", "in property <${1:int}> ${2:name};">>,
      <<"in-out property", "in-out property <${1:int}> ${2:name};">>,
      <<"out property", "out property <${1:int}> ${2:name};">>,
      <<"private property", "private property <${1:int}> ${2:name};">>,
      <<"function", "function ${1:name}($2) {\n    $0\n}">>,
      <<"public function", "public function ${1:name}($2) {\n    $0\n}">>,
      <<"callback", "callback ${1:name}($2);">>>>

ElementKeywords ==
    <<<<"animate", "animate ${1:prop} {\n     $0\n}">>,
      <<"states", "states [\n    $0\n]">>,
      <<"for", "for $1 in $2: ${3:Rectangle} {\n    $0\n}">>,
      <<"if", "if $1: ${2:Rectangle} {\n    $0\n}">>,
      <<"@children", "@children">>>>

\* the snippet of a candidate of the element scope that adds braces to a
\* class name whatever follows the token
element_snippet_braces(c, followed_by_brace) ==
    LET f == [c EXCEPT !.insert_text_format = SNIPPET]
    IN  CASE c.kind = "PROPERTY" -> [f EXCEPT !.insert_text = c.label \o ": $1;"]
          [] c.kind = "METHOD" -> [f EXCEPT !.insert_text = c.label \o " => {$1}"]
          [] c.kind = "CLASS" -> [f EXCEPT !.insert_text = c.label \o " {$1}"]
          [] OTHER -> f

\* completion_at, lines 65-82: the snippet of a candidate of the element scope
element_snippet(c, followed_by_brace) ==
    LET f == [c EXCEPT !.insert_text_format = SNIPPET]
    IN  CASE c.kind = "PROPERTY" -> [f EXCEPT !.insert_text = c.label \o ": $1;"]
          [] c.kind = "METHOD" -> [f EXCEPT !.insert_text = c.label \o " => {$1}"]
          [] c.kind = "CLASS" ->
                IF ~followed_by_brace THEN [f EXCEPT !.insert_text = c.label \o " {$1}"] ELSE f
          [] OTHER -> f

\* completion_at, lines 85-88: the parent of the element node starts with
\* the identifier `global`
is_global(node) == node.parent_keyword = "global"

\* the keywords of an element body, with the element keywords added in a
\* global block too
element_keywords_everywhere(node, snippet_support) ==
    KeywordItems(DeclarationKeywords, snippet_support)
    \o KeywordItems(ElementKeywords, snippet_support)

\* completion_at, lines 90-126: the keywords of an element body
element_keywords(node, snippet_support) ==
    KeywordItems(DeclarationKeywords, snippet_support)
    \o (IF ~is_global(node) THEN KeywordItems(ElementKeywords, snippet_support) ELSE <<>>)

\* the Element context that offers the components to import in a global
\* block as well
ElementBranch_import_in_global(req, dc) ==
    IF IsAtTrigger(req.token) THEN Some(<<new_simple("children", "")>>)
    ELSE LET scope == resolve_element_scope(req.node.element, dc, req.token.file)
             followed == is_followed_by_brace(req.token.next)
             r == IF req.snippet_support
                  THEN [i \in DOMAIN scope.val |-> element_snippet(scope.val[i], followed)]
                  ELSE scope.val
             available_types ==
                  IF req.snippet_support THEN Labels(SelectKind(scope.val, "CLASS")) ELSE {}
             with_keywords == r \o element_keywords(req.node, req.snippet_support)
         IN  IF ~scope.some THEN None
             ELSE IF req.snippet_support
                  THEN Some(add_components_to_import(req.token, dc, available_types,
                                                     with_keywords))
                  ELSE Some(with_keywords)

\* completion_at, lines 54-133: the token's parent is an Element
ElementBranch(req, dc) ==
    IF IsAtTrigger(req.token) THEN Some(<<new_simple("children", "")>>)
    ELSE LET scope == resolve_element_scope(req.node.element, dc, req.token.file)
             followed == is_followed_by_brace(req.token.next)
             r == IF req.snippet_support
                  THEN [i \in DOMAIN scope.val |-> element_snippet(scope.val[i], followed)]
                  ELSE scope.val
             available_types ==
                  IF req.snippet_support THEN Labels(SelectKind(scope.val, "CLASS")) ELSE {}
             with_keywords == r \o element_keywords(req.node, req.snippet_support)
         IN  IF ~scope.some THEN None
             ELSE IF ~is_global(req.node) /\ req.snippet_support
                  THEN Some(add_components_to_import(req.token, dc, available_types,
                                                     with_keywords))
                  ELSE Some(with_keywords)

\* the candidates of kind `k` of the scope of the binding's parent element
ParentScopeOfKind(req, dc, k) ==
    IF req.token.kind # "Identifier" THEN None
    ELSE IF req.node.parent_kind # "Element" THEN None
    ELSE LET all == resolve_element_scope(req.node.element, dc, req.token.file)
         IN  IF ~all.some THEN None ELSE Some(SelectKind(all.val, k))

\* the Binding context that takes the expression scope only strictly past
\* the end of the colon
BindingBranch_strict(req, dc) ==
    IF req.node.sep_end # 0 /\ req.offset > req.node.sep_end
    THEN with_lookup_ctx(req.node.ctx, resolve_expression_scope(req.node.ctx))
    ELSE ParentScopeOfKind(req, dc, "PROPERTY")

\* completion_at, lines 134-150: the token's parent is a Binding
BindingBranch(req, dc) ==
    IF req.node.sep_end # 0 /\ req.offset >= req.node.sep_end
    THEN with_lookup_ctx(req.node.ctx, resolve_expression_scope(req.node.ctx))
    ELSE ParentScopeOfKind(req, dc, "PROPERTY")

\* completion_at, lines 151-160: the token's parent is a TwoWayBinding
TwoWayBindingBranch(req, dc) == ParentScopeOfKind(req, dc, "PROPERTY")

\* completion_at, lines 161-170: the token's parent is a CallbackConnection
CallbackConnectionBranch(req, dc) == ParentScopeOfKind(req, dc, "METHOD")

\* completion_at, lines 180-184: the token's parent is a CallbackDeclaration
CallbackDeclarationBranch(req, dc) ==
    IF req.node.sep_end = 0 THEN None
    ELSE IF req.token.start >= req.node.sep_end THEN resolve_type_scope(req.token, dc)
    ELSE None

ExpressionNodeKinds ==
    {"BindingExpression", "CodeBlock", "ReturnStatement", "Expression",
     "FunctionCallExpression", "SelfAssignment", "ConditionalExpression",
     "BinaryExpression", "UnaryOpExpression", "Array", "AtGradient",
     "StringTemplate", "IndexExpression"}

AtBuiltins ==
    <<<<"tr", "tr(\"$1\")">>, <<"image-url", "image-url(\"$1\")">>,
      <<"linear-gradient", "linear-gradient($1)">>,
      <<"radial-gradient", "radial-gradient(circle, $1)">>>>

\* the expression context that takes only the token `@` for the trigger
ExpressionBranch_at_token_only(req) ==
    IF req.token.kind = "At"
    THEN Some([i \in DOMAIN AtBuiltins |->
                 with_insert_text(new_simple(AtBuiltins[i][1], ""), AtBuiltins[i][2],
                                  req.snippet_support)])
    ELSE with_lookup_ctx(req.node.ctx, resolve_expression_scope(req.node.ctx))

\* completion_at, lines 185-226: the token's parent bears an expression
ExpressionBranch(req) ==
    IF IsAtTrigger(req.token)
    THEN Some([i \in DOMAIN AtBuiltins |->
                 with_insert_text(new_simple(AtBuiltins[i][1], ""), AtBuiltins[i][2],
                                  req.snippet_support)])
    ELSE with_lookup_ctx(req.node.ctx, resolve_expression_scope(req.node.ctx))

(***************************************************************************)
(* Qualified names.                                                        *)
(***************************************************************************)
WalkState(path, has_dot) == [path |-> path, has_dot |-> has_dot]

\* the walk that keeps has_dot set once a dot was seen
RECURSIVE chain_walk_sticky_dot(_, _, _, _, _, _)
chain_walk_sticky_dot(ctx, tokens, i, cursor, expr_it, has_dot) ==
    IF i > Len(tokens) THEN Some(WalkState(expr_it, has_dot))
    ELSE LET t == tokens[i]
             dot == has_dot \/ t.kind = "Dot"
             found == lookup(ctx, expr_it, normalize_identifier(t.text))
         IN  IF i = cursor THEN Some(WalkState(expr_it, dot))
             ELSE IF t.kind # "Identifier"
                  THEN chain_walk_sticky_dot(ctx, tokens, i + 1, cursor, expr_it, dot)
             ELSE IF ~found.some THEN None
             ELSE chain_walk_sticky_dot(ctx, tokens, i + 1, cursor, found.val, dot)

\* the walk that stays on the last resolved object when a segment does not
\* resolve
RECURSIVE chain_walk_lenient(_, _, _, _, _, _)
chain_walk_lenient(ctx, tokens, i, cursor, expr_it, has_dot) ==
    IF i > Len(tokens) THEN Some(WalkState(expr_it, has_dot))
    ELSE LET t == tokens[i]
             dot == has_dot \/ t.kind = "Dot"
             found == lookup(ctx, expr_it, normalize_identifier(t.text))
         IN  IF i = cursor THEN Some(WalkState(expr_it, dot))
             ELSE IF t.kind # "Identifier"
                  THEN chain_walk_lenient(ctx, tokens, i + 1, cursor, expr_it, dot)
             ELSE IF ~found.some
                  THEN chain_walk_lenient(ctx, tokens, i + 1, cursor, expr_it, FALSE)
             ELSE chain_walk_lenient(ctx, tokens, i + 1, cursor, found.val, FALSE)

\* completion_at, lines 278-290: the loop over the tokens after the first
\* identifier; None when a segment does not resolve
RECURSIVE chain_walk(_, _, _, _, _, _)
chain_walk(ctx, tokens, i, cursor, expr_it, has_dot) ==
    IF i > Len(tokens) THEN Some(WalkState(expr_it, has_dot))
    ELSE LET t == tokens[i]
             dot == has_dot \/ t.kind = "Dot"
             found == lookup(ctx, expr_it, normalize_identifier(t.text))
         IN  IF i = cursor THEN Some(WalkState(expr_it, dot))
             ELSE IF t.kind # "Identifier"
                  THEN chain_walk(ctx, tokens, i + 1, cursor, expr_it, dot)
             ELSE IF ~found.some THEN None
             ELSE chain_walk(ctx, tokens, i + 1, cursor, found.val, FALSE)

\* the index of the first token that is an identifier or the cursor's
\* token (skip_while, then next); 0 when there is none
first_segment(tokens, cursor) ==
    LET stop == {i \in DOMAIN tokens : tokens[i].kind = "Identifier" \/ i = cursor}
    IN  IF stop = {} THEN 0 ELSE CHOOSE i \in stop : \A j \in stop : i <= j

\* the chained lookup that never falls back to the expression scope
qualified_expression_nofallback(ctx, tokens, cursor) ==
    LET first == first_segment(tokens, cursor)
        global == lookup(ctx, <<>>, normalize_identifier(tokens[first].text))
        walk == chain_walk(ctx, tokens, first + 1, cursor, global.val, FALSE)
    IN  IF ~global.some THEN None
        ELSE IF ~walk.some THEN None
        ELSE IF walk.val.has_dot THEN Some(EntryItems(Members(ctx, walk.val.path)))
        ELSE None

\* completion_at, lines 266-299: a qualified name in an expression, under a
\* lookup context
qualified_expression(ctx, tokens, cursor) ==
    LET first == first_segment(tokens, cursor)
        global == lookup(ctx, <<>>, normalize_identifier(tokens[first].text))
        walk == chain_walk(ctx, tokens, first + 1, cursor, global.val, FALSE)
    IN  IF first = 0 \/ first = cursor THEN resolve_expression_scope(ctx)
        ELSE IF ~global.some THEN None
        ELSE IF ~walk.some THEN None
        ELSE IF walk.val.has_dot THEN Some(EntryItems(Members(ctx, walk.val.path)))
        ELSE None

\* completion_at, lines 227-302: the token's parent is a QualifiedName
QualifiedNameBranch(req, dc) ==
    CASE req.node.parent_kind = "Element" ->
            LET res == ClassItems(RegistryFor(dc, req.token.file))
            IN  IF req.snippet_support
                THEN Some(add_components_to_import(req.token, dc, Labels(res), res))
                ELSE Some(res)
      [] req.node.parent_kind = "Type" -> resolve_type_scope(req.token, dc)
      [] req.node.parent_kind = "Expression" ->
            with_lookup_ctx(req.node.ctx,
                            qualified_expression(req.node.ctx, req.node.qtokens,
                                                 req.node.cursor))
      [] OTHER -> None

(***************************************************************************)
(* Import lists, top-level keywords, states and animations.                *)
(***************************************************************************)
\* completion_at, lines 303-322: the token's parent is an import identifier
\* list; import_target is the file the import path resolves to
ImportIdentifierListBranch(req, dc) ==
    IF req.node.parent_kind # "ImportSpecifier" THEN None
    ELSE IF req.node.import_target = NoText THEN None
    ELSE LET doc == get_document(dc, req.node.import_target)
         IN  IF ~doc.some THEN None
             ELSE Some([i \in DOMAIN doc.val.exports |->
                          [DefaultItem EXCEPT !.label = doc.val.exports[i].name]])

DocumentKeywords ==
    <<<<"import", "import { ${2:Component} } from \"${1:std-widgets.slint}\";">>,
      <<"component", "component ${1:Component} {\n    $0\n}">>,
      <<"struct", "struct ${1:Name} {\n    $0\n}">>,
      <<"global", "global ${1:Name} {\n    $0\n}">>,
      <<"export", "export { $0 }">>,
      <<"export component", "export component ${1:ExportedComponent} {\n    $0\n}">>,
      <<"export struct", "export struct ${1:Name} {\n    $0\n}">>,
      <<"export global", "export global ${1:Name} {\n    $0\n}">>>>

StateKeywords == <<<<"when", "when $1: {\n    $0\n}">>>>

\* property_animation_type_for_property(Type::Float32).property_list()
animation_properties ==
    <<Prop("delay", "duration"), Prop("duration", "duration"),
      Prop("iteration-count", "float"), Prop("easing", "easing")>>

\* completion_at, lines 353-369: the token's parent is a PropertyAnimation
PropertyAnimationBranch(req) ==
    Some([i \in DOMAIN animation_properties |->
            LET c == WithKind(new_simple(animation_properties[i].name,
                                         animation_properties[i].ty), "PROPERTY")
            IN  IF req.snippet_support
                THEN [c EXCEPT !.insert_text_format = SNIPPET,
                               !.insert_text = c.label \o ": $1;"]
                ELSE c])

\* an empty list where no context matches
no_context_empty == Some(<<>>)

\* completion_at, line 371: no context matched
no_context == None

TypeNodeKinds == {"Type", "ArrayType", "ObjectType", "ReturnType"}

\* the state context taken for the state list as well
is_state_node_or_list(kind) == kind \in {"State", "States"}

\* completion_at, line 343: node.kind() == SyntaxKind::State
is_state_node(kind) == kind = "State"

\* completion_at with the later contexts tried for a string literal that is
\* in no import statement and no @image-url
completion_at_falling_through(dc, req) ==
    LET kind == req.node.kind
    IN  IF req.token.kind = "StringLiteral" /\ kind \in {"ImportSpecifier", "AtImageUrl"}
        THEN PathBranch(req)
        ELSE IF kind = "Element" THEN ElementBranch(req, dc)
        ELSE IF kind = "Binding" THEN BindingBranch(req, dc)
        ELSE IF kind = "TwoWayBinding" THEN TwoWayBindingBranch(req, dc)
        ELSE IF kind = "CallbackConnection" THEN CallbackConnectionBranch(req, dc)
        ELSE IF kind \in TypeNodeKinds THEN resolve_type_scope(req.token, dc)
        ELSE IF kind = "PropertyDeclaration"
             THEN IF req.token.kind = "LAngle" THEN resolve_type_scope(req.token, dc)
                  ELSE no_context
        ELSE IF kind = "CallbackDeclaration" THEN CallbackDeclarationBranch(req, dc)
        ELSE IF kind \in ExpressionNodeKinds THEN ExpressionBranch(req)
        ELSE IF kind = "QualifiedName" THEN QualifiedNameBranch(req, dc)
        ELSE IF kind = "ImportIdentifierList" THEN ImportIdentifierListBranch(req, dc)
        ELSE IF kind = "Document"
             THEN Some(KeywordItems(DocumentKeywords, req.snippet_support))
        ELSE IF is_state_node(kind) THEN Some(KeywordItems(StateKeywords, req.snippet_support))
        ELSE IF kind = "PropertyAnimation" THEN PropertyAnimationBranch(req)
        ELSE no_context

\* fn completion_at
completion_at(dc, req) ==
    LET kind == req.node.kind
    IN  IF req.token.kind = "StringLiteral"
        THEN IF kind \in {"ImportSpecifier", "AtImageUrl"} THEN PathBranch(req)
             ELSE no_context
        ELSE IF kind = "Element" THEN ElementBranch(req, dc)
        ELSE IF kind = "Binding" THEN BindingBranch(req, dc)
        ELSE IF kind = "TwoWayBinding" THEN TwoWayBindingBranch(req, dc)
        ELSE IF kind = "CallbackConnection" THEN CallbackConnectionBranch(req, dc)
        ELSE IF kind \in TypeNodeKinds THEN resolve_type_scope(req.token, dc)
        ELSE IF kind = "PropertyDeclaration"
             THEN IF req.token.kind = "LAngle" THEN resolve_type_scope(req.token, dc)
                  ELSE no_context
        ELSE IF kind = "CallbackDeclaration" THEN CallbackDeclarationBranch(req, dc)
        ELSE IF kind \in ExpressionNodeKinds THEN ExpressionBranch(req)
        ELSE IF kind = "QualifiedName" THEN QualifiedNameBranch(req, dc)
        ELSE IF kind = "ImportIdentifierList" THEN ImportIdentifierListBranch(req, dc)
        ELSE IF kind = "Document"
             THEN Some(KeywordItems(DocumentKeywords, req.snippet_support))
        ELSE IF is_state_node(kind) THEN Some(KeywordItems(StateKeywords, req.snippet_support))
        ELSE IF kind = "PropertyAnimation" THEN PropertyAnimationBranch(req)
        ELSE no_context

(***************************************************************************)
(* The requests: the token under the cursor with its parent node, the      *)
(* cursor offset and the client's snippet capability.                      *)
(***************************************************************************)
Element(resolved, props, cbs) == [resolved |-> resolved, props |-> props, cbs |-> cbs]

DefaultElement == Element(None, <<>>, <<>>)

DefaultRequest ==
    [token |-> [kind |-> "Identifier", prev_at |-> FALSE, next |-> <<>>,
                file |-> MainFile, start |-> 0, text |-> <<>>],
     offset |-> 0,
     snippet_support |-> FALSE,
     node |-> [kind |-> "Element", parent_kind |-> "Component",
               parent_keyword |-> "component", element |-> DefaultElement,
               sep_end |-> 0, ctx |-> "plain", qtokens |-> <<>>, cursor |-> 0,
               import_target |-> NoText, outer_props |-> <<>>]]

\* the declarations an element's source may hold
PropertyDeclarations ==
    {Prop("beta_gamma", "int"), Prop("text", NoText), Prop(NoText, "int")}

CallbackDeclarations == {"clicked"}

\* what follows the token: nothing, a brace, blanks then a brace, blanks
\* then an identifier
NextTokens ==
    {<<>>, <<"LBrace">>, <<"Whitespace", "Whitespace", "LBrace">>,
     <<"Whitespace", "Identifier", "LBrace">>}

\* where an element node sits and what it resolves to; only the element of
\* a global block can have the Global type
ElementPlaces ==
    {<<kw, ty>> \in {"component", "global", NoText} \X
                    {None, Some(GlobalType), Some(BarType), Some(TextType)} :
        ty = Some(GlobalType) => kw = "global"}

LookupContexts == {"none", "plain", "handler"}

\* the lookup contexts of expressions: also that of a function body
BodyContexts == LookupContexts \cup {"function"}

Offsets == 0..MaxOffset

\* element bodies
ElementRequests ==
    {[DefaultRequest EXCEPT
        !.snippet_support = sn, !.token.next = nx,
        !.node.parent_kind = IF pl[1] = NoText THEN "SubElement" ELSE "Component",
        !.node.parent_keyword = pl[1],
        !.node.element = Element(pl[2], ps, cs)] :
     sn \in BOOLEAN, nx \in NextTokens, pl \in ElementPlaces,
     ps \in SeqsUpTo(PropertyDeclarations, MaxDecls),
     cs \in SeqsUpTo(CallbackDeclarations, 1)}

\* `@` in an element body or in an expression
AtRequests ==
    {[DefaultRequest EXCEPT
        !.snippet_support = sn, !.token.kind = tk[1], !.token.prev_at = tk[2],
        !.node.kind = nk, !.node.ctx = cx,
        !.node.parent_keyword = kw,
        !.node.element = Element(Some(BarType), <<>>, <<>>)] :
     sn \in BOOLEAN,
     tk \in {<<"At", FALSE>>, <<"Identifier", TRUE>>, <<"Identifier", FALSE>>,
             <<"Whitespace", FALSE>>, <<"Whitespace", TRUE>>},
     nk \in {"Element"} \cup ExpressionNodeKinds, cx \in BodyContexts,
     kw \in {"component", "global"}}

\* bindings, two-way bindings and callback connections: the separator ends
\* at sep_end (0: there is none)
BindingRequests ==
    {[DefaultRequest EXCEPT
        !.snippet_support = sn, !.token.kind = tk, !.offset = off,
        !.node.kind = nk, !.node.sep_end = sep, !.node.ctx = cx,
        !.node.parent_kind = el[1],
        !.node.element = el[2]] :
     sn \in BOOLEAN, tk \in {"Identifier", "Whitespace"}, off \in Offsets,
     nk \in {"Binding", "TwoWayBinding", "CallbackConnection"}, sep \in Offsets,
     cx \in BodyContexts,
     el \in {<<"Element", Element(None, <<>>, <<>>)>>,
             <<"Element", Element(Some(BarType), <<Prop("beta_gamma", "int")>>, <<"clicked">>)>>,
             <<"Element", Element(Some(GlobalType), <<>>, <<>>)>>,
             <<"PropertyAnimation", DefaultElement>>}}

\* type positions
TypeRequests ==
    {[DefaultRequest EXCEPT
        !.token.kind = tk, !.token.start = st, !.token.file = f,
        !.node.kind = nk, !.node.sep_end = sep] :
     tk \in {"Identifier", "LAngle", "Whitespace"}, st \in Offsets,
     f \in {MainFile, UnknownFile},
     nk \in TypeNodeKinds \cup {"PropertyDeclaration", "CallbackDeclaration"},
     sep \in Offsets}

QNameTokens ==
    {Tok("Identifier", "param", 0), Tok("Identifier", "bar", 0),
     Tok("Identifier", "b_r", 0), Tok("Dot", ".", 0), Tok("Whitespace", " ", 0)}

\* qualified names: the cursor's token is one of the name's tokens
QualifiedNameRequests ==
    UNION {{[DefaultRequest EXCEPT
               !.snippet_support = sn, !.token.kind = qt[cur].kind,
               !.node.kind = "QualifiedName", !.node.parent_kind = "Expression",
               !.node.ctx = cx, !.node.qtokens = qt, !.node.cursor = cur] :
            sn \in {TRUE},
            cx \in (IF Len(qt) <= 2 THEN LookupContexts ELSE LookupContexts \ {"none"}),
            cur \in DOMAIN qt} :
           qt \in SeqsUpTo(QNameTokens, MaxQNameLen)}
    \cup
    {[DefaultRequest EXCEPT
        !.snippet_support = sn, !.token.next = nx, !.token.file = f,
        !.node.kind = "QualifiedName", !.node.parent_kind = pk,
        !.node.qtokens = <<Tok("Identifier", "B", 0)>>, !.node.cursor = 1] :
     sn \in BOOLEAN, nx \in NextTokens, f \in {MainFile, UnknownFile},
     pk \in {"Element", "Type", "TwoWayBinding", NoText}}

\* the other nodes: import lists, the document, states, animations and the
\* nodes no context is defined for
OtherNodeKinds ==
    {"ImportIdentifierList", "Document", "State", "States", "PropertyAnimation",
     "Component", "DeclaredIdentifier", "ImportSpecifier", "ExportsList",
     "StatePropertyChange", "ObjectLiteral"}

OtherRequests ==
    {[DefaultRequest EXCEPT
        !.snippet_support = sn, !.token.kind = tk, !.node.kind = nk,
        !.node.parent_kind = pk, !.node.import_target = it] :
     sn \in BOOLEAN, tk \in {"Identifier", "Whitespace", "Colon", "At"},
     nk \in OtherNodeKinds, pk \in {"ImportSpecifier", "Document"},
     it \in {NoText, "lib.slint", "missing.slint"}}

PathChars == {"\"", "s", "/"}

\* string literals: in an import, in @image-url, in an expression, and
\* misplaced in an element body or at the top of the document
StringRequests ==
    {[DefaultRequest EXCEPT
        !.token.kind = "StringLiteral", !.token.text = tx, !.token.start = st,
        !.offset = off, !.node.kind = nk] :
     tx \in SeqsUpTo(PathChars, MaxOffset), st \in 0..1, off \in 0..(MaxOffset + 1),
     nk \in {"ImportSpecifier", "AtImageUrl", "Expression", "StringTemplate",
             "Element", "Document"}}

\* the element `bobo := Bar { property <int> beta; }` inside a component
\* that declares `property <int> alpha`
Bobo == Element(Some(BarType), <<Prop("beta", "int")>>, <<>>)

\* the cursor in the body of bobo, and in the value of a binding of bobo
SubElementRequests ==
    {[DefaultRequest EXCEPT
        !.snippet_support = sn, !.token.kind = tk, !.offset = off,
        !.node.kind = nk, !.node.sep_end = IF nk = "Binding" THEN 1 ELSE 0,
        !.node.parent_kind = IF nk = "Element" THEN "SubElement" ELSE "Element",
        !.node.parent_keyword = NoText,
        !.node.element = Bobo,
        !.node.outer_props = <<Prop("alpha", "int")>>] :
     sn \in BOOLEAN, tk \in {"Identifier", "Whitespace", "Semicolon"}, off \in Offsets,
     nk \in {"Element", "Binding", "BindingExpression"}}

\* the requests that reach the import synthesis
ImportRequests ==
    {r \in ElementRequests : r.snippet_support /\ r.node.parent_keyword # "global"}
    \cup {r \in QualifiedNameRequests : r.node.parent_kind = "Element"}

\* the requests that read the registry of the token's document
RegistryRequests ==
    ElementRequests \cup {r \in QualifiedNameRequests : r.node.parent_kind # "Expression"}
    \cup TypeRequests

Requests ==
    ElementRequests \cup AtRequests \cup BindingRequests \cup TypeRequests
    \cup QualifiedNameRequests \cup OtherRequests \cup StringRequests
    \cup SubElementRequests

(***************************************************************************)
(* The live preview (tools/lsp/preview.rs): the content cache behind its   *)
(* mutex and the reload loop that runs as a task of the UI thread.  Every  *)
(* section of code that holds the lock is one step.  The compiler, the UI  *)
(* and the event loop are outside this file: a reload is a task that       *)
(* reads files through the cache and ends, and the visibility of the UI    *)
(* is written by the code that opens and closes the window.                *)
(***************************************************************************)
Urls == {"a.slint", "b.slint"}

Contents == {"v1", "v2"}

Styles == {"native", "fluent"}

\* struct PreviewComponent { url, component, style }: an empty style means
\* the style in use
NewPreviewComponent(url, style) == [url |-> url, style |-> style]

PreviewComponents ==
    {NewPreviewComponent("a.slint", ""), NewPreviewComponent("b.slint", "fluent")}

\* struct PreviewConfig { hide_ui, style, include_paths, library_paths }
NewPreviewConfig(hide_ui) == [hide_ui |-> hide_ui]

PreviewConfigs == {NewPreviewConfig(None), NewPreviewConfig(Some(TRUE))}

\* enum PreviewFutureState
PreviewFutureState == {"Pending", "PreLoading", "Loading", "NeedsReload"}

\* a task of the UI thread running the closure of load_preview: at the head
\* of the loop, in reload_preview_impl before its first await, or awaiting
\* the compiler
Task(at, preview_component, cfg) ==
    [at |-> at, preview_component |-> preview_component, config |-> cfg]

TaskIds == 1..MaxCalls

Remove(seq, i) == SubSeq(seq, 1, i - 1) \o SubSeq(seq, i + 1, Len(seq))

\* #[derive(Default)] struct ContentCache, before CONTENT_CACHE is
\* initialised, with no task on the UI thread
ContentCacheDefault ==
    /\ cache_init = FALSE
    /\ source_code = [u \in Urls |-> NoText]
    /\ dependency = {}
    /\ current = None
    /\ config = NewPreviewConfig(None)
    /\ loading_state = "Pending"
    /\ ui_is_visible = FALSE
    /\ tasks = <<>>
    /\ current_style = "native"
    /\ show_preview_ui = TRUE
    /\ preview_area = None
    /\ panicked = NoText
    /\ calls = 0

\* run_in_ui_thread: the closure becomes a task of the UI thread
run_in_ui_thread(ts) == Append(ts, Task("loop", None, None))

\* load_preview that starts a task for a request made during a load
load_preview_second_task(preview_component) ==
    /\ cache_init' = TRUE
    /\ current' = Some(preview_component)
    /\ IF ~ui_is_visible THEN UNCHANGED <<loading_state, tasks>>
       ELSE CASE loading_state = "Pending" ->
                    /\ loading_state' = "PreLoading"
                    /\ tasks' = run_in_ui_thread(tasks)
              [] loading_state = "PreLoading" -> UNCHANGED <<loading_state, tasks>>
              [] loading_state = "Loading" ->
                    /\ loading_state' = "NeedsReload"
                    /\ tasks' = run_in_ui_thread(tasks)
              [] loading_state = "NeedsReload" -> UNCHANGED <<loading_state, tasks>>

\* load_preview that marks a load as outdated before it has begun
load_preview_outdated_early(preview_component) ==
    /\ cache_init' = TRUE
    /\ current' = Some(preview_component)
    /\ IF ~ui_is_visible THEN UNCHANGED <<loading_state, tasks>>
       ELSE CASE loading_state = "Pending" ->
                    /\ loading_state' = "PreLoading"
                    /\ tasks' = run_in_ui_thread(tasks)
              [] loading_state \in {"PreLoading", "Loading"} ->
                    /\ loading_state' = "NeedsReload"
                    /\ UNCHANGED tasks
              [] loading_state = "NeedsReload" -> UNCHANGED <<loading_state, tasks>>

\* fn load_preview, lines 163-223: the section under the lock and the start
\* of the task
load_preview(preview_component) ==
    /\ cache_init' = TRUE
    /\ current' = Some(preview_component)
    /\ IF ~ui_is_visible THEN UNCHANGED <<loading_state, tasks>>
       ELSE CASE loading_state = "Pending" ->
                    /\ loading_state' = "PreLoading"
                    /\ tasks' = run_in_ui_thread(tasks)
              [] loading_state = "PreLoading" -> UNCHANGED <<loading_state, tasks>>
              [] loading_state = "Loading" ->
                    /\ loading_state' = "NeedsReload"
                    /\ UNCHANGED tasks
              [] loading_state = "NeedsReload" -> UNCHANGED <<loading_state, tasks>>

\* a call counted against the bound, on a cache whose mutex is not poisoned
Call ==
    /\ panicked = NoText
    /\ calls < MaxCalls
    /\ calls' = calls + 1
    /\ UNCHANGED <<documents, request, result, pc, served, accepted>>

\* the language server asks for the preview of a component
LoadPreview(preview_component) ==
    /\ Call
    /\ load_preview(preview_component)
    /\ UNCHANGED <<source_code, dependency, config, ui_is_visible, current_style,
                   show_preview_ui, preview_area, panicked>>

\* set_contents that asks for a reload whatever file changed
set_contents_any_url(url, content) ==
    /\ cache_init' = TRUE
    /\ source_code' = [source_code EXCEPT ![url] = content]
    /\ IF /\ source_code[url] # content
          /\ current.some
          /\ ui_is_visible
       THEN load_preview(current.val)
       ELSE UNCHANGED <<current, loading_state, tasks>>

\* fn set_contents, lines 65-85
set_contents(url, content) ==
    /\ cache_init' = TRUE
    /\ source_code' = [source_code EXCEPT ![url] = content]
    /\ IF /\ url \in dependency
          /\ source_code[url] # content
          /\ current.some
          /\ ui_is_visible
       THEN load_preview(current.val)
       ELSE UNCHANGED <<current, loading_state, tasks>>

\* the editor changes the text of a document
SetContents(url, content) ==
    /\ Call
    /\ set_contents(url, content)
    /\ UNCHANGED <<dependency, config, ui_is_visible, current_style, show_preview_ui,
                   preview_area, panicked>>

\* fn change_style, lines 98-109, called after the UI took the style `s`
change_style ==
    /\ cache_init' = TRUE
    /\ IF current.some /\ ui_is_visible
       THEN load_preview(current.val)
       ELSE UNCHANGED <<current, loading_state, tasks>>

\* the user picks a style in the preview's UI
ChangeStyle(s) ==
    /\ Call
    /\ current_style' = s
    /\ change_style
    /\ UNCHANGED <<source_code, dependency, config, ui_is_visible, show_preview_ui,
                   preview_area, panicked>>

\* fn config_changed, lines 126-147
config_changed(cfg) ==
    IF ~cache_init \/ config = cfg
    THEN UNCHANGED <<cache_init, config, show_preview_ui, current, loading_state, tasks>>
    ELSE /\ config' = cfg
         /\ IF ~ui_is_visible
            THEN UNCHANGED <<cache_init, show_preview_ui, current, loading_state, tasks>>
            ELSE /\ show_preview_ui' = IF cfg.hide_ui.some THEN ~cfg.hide_ui.val
                                       ELSE show_preview_ui
                 /\ IF current.some THEN load_preview(current.val)
                    ELSE UNCHANGED <<cache_init, current, loading_state, tasks>>

\* the editor sends its configuration
ConfigChanged(cfg) ==
    /\ Call
    /\ config_changed(cfg)
    /\ UNCHANGED <<source_code, dependency, ui_is_visible, current_style, preview_area,
                   panicked>>

\* the preview window is opened
OpenUi ==
    /\ panicked = NoText
    /\ ~ui_is_visible
    /\ ui_is_visible' = TRUE
    /\ cache_init' = TRUE
    /\ UNCHANGED <<source_code, dependency, current, config, loading_state, tasks,
                   current_style, show_preview_ui, preview_area, panicked, calls>>
    /\ UNCHANGED <<documents, request, result, pc, served, accepted>>

\* the preview window is closed
CloseUi ==
    /\ panicked = NoText
    /\ ui_is_visible
    /\ ui_is_visible' = FALSE
    /\ UNCHANGED <<cache_init, source_code, dependency, current, config, loading_state,
                   tasks, current_style, show_preview_ui, preview_area, panicked, calls>>
    /\ UNCHANGED <<documents, request, result, pc, served, accepted>>

\* a step of a task of the UI thread
TaskStep(i) ==
    /\ panicked = NoText
    /\ i \in DOMAIN tasks
    /\ UNCHANGED <<calls, documents, request, result, pc, served, accepted>>

\* the head of the loop that returns under a closed UI without writing the
\* state
LoopHead_keeps_state(i) ==
    /\ TaskStep(i)
    /\ tasks[i].at = "loop"
    /\ UNCHANGED <<cache_init, source_code, current, config, ui_is_visible, show_preview_ui,
                   preview_area>>
    /\ IF ~current.some \/ ~ui_is_visible
       THEN /\ tasks' = Remove(tasks, i)
            /\ UNCHANGED <<loading_state, dependency, current_style, panicked>>
       ELSE IF loading_state # "PreLoading"
       THEN /\ panicked' = "assert_eq"
            /\ UNCHANGED <<loading_state, dependency, current_style, tasks>>
       ELSE /\ loading_state' = "Loading"
            /\ dependency' = {}
            /\ tasks' = [tasks EXCEPT ![i] = Task("reload", current, Some(config))]
            /\ current_style' = IF current.val.style = "" THEN current_style
                                ELSE current.val.style
            /\ UNCHANGED panicked

\* load_preview, lines 183-204: the head of the loop
LoopHead(i) ==
    /\ TaskStep(i)
    /\ tasks[i].at = "loop"
    /\ UNCHANGED <<cache_init, source_code, current, config, ui_is_visible, show_preview_ui,
                   preview_area>>
    /\ IF ~current.some
       THEN /\ tasks' = Remove(tasks, i)
            /\ UNCHANGED <<loading_state, dependency, current_style, panicked>>
       ELSE IF loading_state # "PreLoading"
       THEN /\ panicked' = "assert_eq"
            /\ UNCHANGED <<loading_state, dependency, current_style, tasks>>
       ELSE IF ~ui_is_visible
       THEN /\ loading_state' = "Pending"
            /\ tasks' = Remove(tasks, i)
            /\ UNCHANGED <<dependency, current_style, panicked>>
       ELSE /\ loading_state' = "Loading"
            /\ dependency' = {}
            /\ tasks' = [tasks EXCEPT ![i] = Task("reload", current, Some(config))]
            /\ current_style' = IF current.val.style = "" THEN current_style
                                ELSE current.val.style
            /\ UNCHANGED panicked

\* fn get_url_from_cache, lines 151-156: the set of dependencies after the
\* file was asked for
get_url_from_cache(deps, url) == deps \cup {url}

\* fn reload_preview_impl, lines 226-266: up to the first await, the text of
\* the component's file is taken from the cache
ReloadStart(i) ==
    /\ TaskStep(i)
    /\ tasks[i].at = "reload"
    /\ dependency' = get_url_from_cache(dependency, tasks[i].preview_component.val.url)
    /\ tasks' = [tasks EXCEPT ![i].at = "await"]
    /\ UNCHANGED <<cache_init, source_code, current, config, loading_state, ui_is_visible,
                   current_style, show_preview_ui, preview_area, panicked>>

\* reload_preview_impl, lines 249-252: the compiler asks the file loader for
\* an imported file
LoadFile(i, url) ==
    /\ TaskStep(i)
    /\ tasks[i].at = "await"
    /\ dependency' = get_url_from_cache(dependency, url)
    /\ UNCHANGED <<cache_init, source_code, current, config, loading_state, ui_is_visible,
                   tasks, current_style, show_preview_ui, preview_area, panicked>>

\* the end of a reload after which the loop goes round in every state
ReloadDone_continue(i) ==
    /\ TaskStep(i)
    /\ tasks[i].at = "await"
    /\ preview_area' = tasks[i].preview_component
    /\ UNCHANGED <<cache_init, source_code, dependency, current, config, ui_is_visible,
                   current_style, show_preview_ui>>
    /\ CASE loading_state = "Loading" ->
               /\ loading_state' = "Pending"
               /\ tasks' = [tasks EXCEPT ![i] = Task("loop", None, None)]
               /\ UNCHANGED panicked
         [] loading_state = "NeedsReload" ->
               /\ loading_state' = "PreLoading"
               /\ tasks' = [tasks EXCEPT ![i] = Task("loop", None, None)]
               /\ UNCHANGED panicked
         [] OTHER ->
               /\ panicked' = "unreachable"
               /\ UNCHANGED <<loading_state, tasks>>

\* reload_preview_impl, lines 268-272, and load_preview, lines 208-220: the
\* compiler is done, the preview area shows the component and the loop
\* returns or goes round
ReloadDone(i) ==
    /\ TaskStep(i)
    /\ tasks[i].at = "await"
    /\ preview_area' = tasks[i].preview_component
    /\ UNCHANGED <<cache_init, source_code, dependency, current, config, ui_is_visible,
                   current_style, show_preview_ui>>
    /\ CASE loading_state = "Loading" ->
               /\ loading_state' = "Pending"
               /\ tasks' = Remove(tasks, i)
               /\ UNCHANGED panicked
         [] loading_state = "NeedsReload" ->
               /\ loading_state' = "PreLoading"
               /\ tasks' = [tasks EXCEPT ![i] = Task("loop", None, None)]
               /\ UNCHANGED panicked
         [] OTHER ->
               /\ panicked' = "unreachable"
               /\ UNCHANGED <<loading_state, tasks>>

RunLoopHead == \E i \in TaskIds : LoopHead(i)

RunReloadStart == \E i \in TaskIds : ReloadStart(i)

RunLoadFile == \E i \in TaskIds, url \in Urls : LoadFile(i, url)

RunReloadDone == \E i \in TaskIds : ReloadDone(i)

\* the preview starts with the default cache; the completion engine has a
\* request at hand and is not run
PreviewInit ==
    /\ ContentCacheDefault
    /\ documents = DefaultStore
    /\ request = DefaultRequest
    /\ result = None
    /\ pc = "request"
    /\ served = 0
    /\ accepted = {}

PreviewNext ==
    \/ \E preview_component \in PreviewComponents : LoadPreview(preview_component)
    \/ \E url \in Urls, content \in Contents : SetContents(url, content)
    \/ \E s \in Styles : ChangeStyle(s)
    \/ \E cfg \in PreviewConfigs : ConfigChanged(cfg)
    \/ OpenUi
    \/ CloseUi
    \/ RunLoopHead
    \/ RunReloadStart
    \/ RunLoadFile
    \/ RunReloadDone

PreviewSpec == PreviewInit /\ [][PreviewNext]_vars

\* the UI thread's event loop runs every task that is ready, and the
\* compiler comes to an end
PreviewFairSpec ==
    /\ PreviewSpec
    /\ WF_vars(RunLoopHead)
    /\ WF_vars(RunReloadStart)
    /\ WF_vars(RunReloadDone)

(***************************************************************************)
(* The state machine of the completion engine.                             *)
(***************************************************************************)
\* the requests an editor sends after a first one
FollowUpRequests ==
    {[DefaultRequest EXCEPT !.snippet_support = TRUE,
                            !.node.element = Element(Some(BarType), <<>>, <<>>)],
     [DefaultRequest EXCEPT !.snippet_support = TRUE, !.node.kind = "QualifiedName",
                            !.node.parent_kind = "Element",
                            !.node.qtokens = <<Tok("Identifier", "B", 0)>>,
                            !.node.cursor = 1],
     [DefaultRequest EXCEPT !.node.kind = "BindingExpression", !.token.kind = "Whitespace"],
     [DefaultRequest EXCEPT !.node.kind = "Document"]}

\* the requests drawn for the documents that differ in their first tokens
LeadingRequests == {r \in FollowUpRequests : r.snippet_support}

Init ==
    /\ \/ documents \in Stores /\ request \in ImportRequests
       \/ documents \in {Store(m) : m \in LeadingDocs} /\ request \in LeadingRequests
       \/ documents \in {DefaultStore, Store(NoDoc)} /\ request \in RegistryRequests
       \/ documents = DefaultStore /\ request \in Requests
    /\ result = None
    /\ pc = "request"
    /\ served = 0
    /\ accepted = {}
    /\ ContentCacheDefault

\* the store after a call of completion_at with the store before: the
\* function and its callees only read the documents and the registries
store_after_caching(dc, req) ==
    [dc EXCEPT !.docs = [f \in DOMAIN dc.docs |->
                           IF f = req.token.file THEN dc.docs[f] ELSE NoDoc]]

store_after(dc, req) == dc

\* the server answers the completion request
CompletionAt ==
    /\ pc = "request"
    /\ result' = completion_at(documents, request)
    /\ documents' = store_after(documents, request)
    /\ pc' = "done"
    /\ served' = served + 1
    /\ UNCHANGED <<request, accepted, pvars>>

\* the editor sends another request
NextRequest ==
    /\ pc = "done"
    /\ served < MaxRequests
    /\ request' \in FollowUpRequests
    /\ result' = None
    /\ pc' = "request"
    /\ UNCHANGED <<documents, served, accepted, pvars>>

\* the user accepts an import candidate of the answer: the editor applies
\* its import edit, the server reloads the document and the editor asks
\* again at the same place
AcceptImportEdit ==
    /\ pc = "done"
    /\ served < MaxRequests
    /\ result.some
    /\ get_document(documents, request.token.file).some
    /\ LET doc == get_document(documents, request.token.file).val
           scan == ExportScan(documents, request.token.file)
       IN  \E j \in DOMAIN result.val, i \in DOMAIN scan :
              /\ result.val[j].additional_text_edits # <<>>
              /\ scan[i].k = "Component"
              /\ scan[i].name = result.val[j].filter_text
              /\ result.val[j] = ImportItem(scan[i], doc, is_followed_by_brace(request.token.next))
              /\ has_position(doc, result.val[j].additional_text_edits[1].range_start)
              /\ documents' = [documents EXCEPT !.docs[request.token.file] =
                                                    after_import_edit(doc, scan[i])]
              /\ accepted' = accepted \cup {scan[i].name}
    /\ result' = None
    /\ pc' = "request"
    /\ UNCHANGED <<request, served, pvars>>

Next == CompletionAt \/ NextRequest \/ AcceptImportEdit

Spec == Init /\ [][Next]_vars

(***************************************************************************)
(* Properties.                                                             *)
(***************************************************************************)
Done == pc = "done"

\* the conditions under which completion_at enters one of its contexts
MatchesRule(req) ==
    IF req.token.kind = "StringLiteral"
    THEN req.node.kind \in {"ImportSpecifier", "AtImageUrl"}
    ELSE \/ req.node.kind \in {"Element", "Binding", "TwoWayBinding", "CallbackConnection",
                               "ImportIdentifierList", "Document", "State",
                               "PropertyAnimation"}
         \/ req.node.kind \in TypeNodeKinds \cup ExpressionNodeKinds
         \/ req.node.kind = "PropertyDeclaration" /\ req.token.kind = "LAngle"
         \/ req.node.kind = "CallbackDeclaration" /\ req.node.sep_end # 0
                /\ req.token.start >= req.node.sep_end
         \/ req.node.kind = "QualifiedName"
                /\ req.node.parent_kind \in {"Element", "Type", "Expression"}

\* C1: a request whose token and enclosing node match no context is
\* answered None, so an empty list comes only from a context that matched
C1_UnmatchedIsNone ==
    Done => /\ ~MatchesRule(request) => result = None
            /\ result = Some(<<>>) => MatchesRule(request)

C1_Witness == Done /\ ~MatchesRule(request) /\ request.node.kind = "States" /\ result = None

\* a matched context answered with the empty list
C1_EmptyListReached == Done /\ result = Some(<<>>)

\* the element whose scope a binding's names are taken from
ParentElementItems ==
    resolve_element_scope(request.node.element, documents, request.token.file).val

InSeq(x, seq) == \E i \in DOMAIN seq : seq[i] = x

\* the names visible in the expression scope of a lookup context
ExpressionScopeNames(ctx) ==
    {Members(ctx, <<>>)[i].name : i \in DOMAIN Members(ctx, <<>>)} \ {"SlintInternal"}

\* the answer is the expression scope of the request's lookup context, or
\* None when there is no such context
IsExpressionScope(res, ctx) ==
    IF ctx = "none" THEN res = None
    ELSE /\ res.some
         /\ Labels(res.val) = ExpressionScopeNames(ctx)
         /\ Len(res.val) = Cardinality(ExpressionScopeNames(ctx))
         /\ res = resolve_expression_scope(ctx)

PastSeparator(req) == req.node.sep_end # 0 /\ req.offset >= req.node.sep_end

\* C2: in a one-way binding, before the end of the colon every candidate is
\* a property of the enclosing element's scope; from the end of the colon
\* on the answer is the expression scope
C2_BindingSides ==
    (Done /\ request.node.kind = "Binding") =>
        IF PastSeparator(request)
        THEN IsExpressionScope(result, request.node.ctx)
        ELSE result.some =>
                \A i \in DOMAIN result.val :
                    /\ result.val[i].kind = "PROPERTY"
                    /\ InSeq(result.val[i], ParentElementItems)

C2_Witness ==
    /\ Done /\ request.node.kind = "Binding"
    /\ request.offset = request.node.sep_end /\ request.node.sep_end # 0
    /\ request.node.ctx = "handler"
    /\ result.some /\ "param" \in Labels(result.val)

\* the binding answered before the colon with the properties of its element
C2_BeforeReached ==
    /\ Done /\ request.node.kind = "Binding" /\ ~PastSeparator(request)
    /\ result.some /\ "beta-gamma" \in Labels(result.val)

\* C3 (as claimed): past the separator of a two-way binding or of a callback
\* connection the answer is the expression scope
C3_DelegatesPastSeparator ==
    (Done /\ request.node.kind \in {"TwoWayBinding", "CallbackConnection"}
          /\ PastSeparator(request)) =>
        IsExpressionScope(result, request.node.ctx)

WhenItem(snippet_support) ==
    with_insert_text(WithKind(new_simple("when", ""), "KEYWORD"),
                     "when $1: {\n    $0\n}", snippet_support)

\* C4: the answer is exactly the keyword `when` if and only if the token's
\* parent is a State; in the state list itself the answer is None
C4_WhenOnlyInState ==
    Done => /\ (request.node.kind = "State" /\ request.token.kind # "StringLiteral")
                <=> (result.some /\ Len(result.val) = 1
                     /\ result.val[1].label = "when" /\ result.val[1].kind = "KEYWORD")
            /\ request.node.kind = "State" /\ request.token.kind # "StringLiteral"
                => result = Some(<<WhenItem(request.snippet_support)>>)
            /\ request.node.kind = "States" => result = None

C4_Witness ==
    /\ Done /\ request.node.kind = "State" /\ request.token.kind = "Whitespace"
    /\ result = Some(<<WhenItem(request.snippet_support)>>)

\* the state list answered None
C4_StatesReached == Done /\ request.node.kind = "States" /\ result = None

\* an element body answered by the element scope
ElementScopeCase ==
    Done /\ request.node.kind = "Element" /\ request.token.kind # "StringLiteral"
         /\ ~IsAtTrigger(request.token)

HasItem(res, label, kind) ==
    \E i \in DOMAIN res.val : res.val[i].label = label /\ res.val[i].kind = kind

ResolvedType(element) == IF element.resolved.some THEN element.resolved.val ELSE ErrorType

DeclaredName(n) == IF n = NoText THEN "" ELSE normalize_identifier(n)

\* C5: outside a global block the element scope holds a candidate for
\* every property and callback of the resolved type, for every property and
\* callback declared in the element's source and for every visible class of
\* the registry
C5_ElementScopeComplete ==
    (ElementScopeCase /\ request.node.parent_keyword # "global") =>
        LET el == request.node.element
            ty == ResolvedType(el)
            tr == RegistryFor(documents, request.token.file)
        IN  /\ result.some
            /\ \A i \in DOMAIN ty.props :
                  HasItem(result, ty.props[i].name,
                          IF ty.props[i].ty \in {"callback", "inferred-callback"}
                          THEN "METHOD" ELSE "PROPERTY")
            /\ \A i \in DOMAIN el.props :
                  HasItem(result, DeclaredName(el.props[i].name), "PROPERTY")
            /\ \A i \in DOMAIN el.cbs : HasItem(result, DeclaredName(el.cbs[i]), "METHOD")
            /\ \A i \in DOMAIN tr.elements :
                  ( \/ tr.elements[i].k = "Component" /\ ~tr.elements[i].is_global
                    \/ tr.elements[i].k = "Builtin" /\ ~tr.elements[i].is_internal
                          /\ ~tr.elements[i].is_global )
                  => HasItem(result, tr.elements[i].name, "CLASS")

C5_Witness ==
    /\ ElementScopeCase /\ request.node.parent_keyword = "component"
    /\ request.node.element.resolved = Some(BarType)
    /\ Len(request.node.element.props) = MaxDecls
    /\ request.node.element.cbs # <<>>
    /\ HasItem(result, "red", "PROPERTY") /\ HasItem(result, "beta-gamma", "PROPERTY")
    /\ HasItem(result, "clicked", "METHOD") /\ HasItem(result, "Bar", "CLASS")

\* C6 (as claimed): no property or callback name appears twice in the
\* element scope
C6_NoDuplicateNames ==
    ElementScopeCase =>
        \A i, j \in DOMAIN result.val :
            ( /\ result.val[i].kind \in {"PROPERTY", "METHOD"}
              /\ result.val[j].kind \in {"PROPERTY", "METHOD"}
              /\ result.val[i].label = result.val[j].label ) => i = j

KeywordLabels(table) == {table[i][1] : i \in DOMAIN table}

\* every keyword of the table is a KEYWORD candidate with this insertion
HasKeywords(res, table, with_body) ==
    \A i \in DOMAIN table :
        \E j \in DOMAIN res.val :
            /\ res.val[j].label = table[i][1] /\ res.val[j].kind = "KEYWORD"
            /\ res.val[j].insert_text = (IF with_body THEN table[i][2] ELSE NoText)

NoKeywords(res, table) ==
    \A j \in DOMAIN res.val :
        ~(res.val[j].kind = "KEYWORD" /\ res.val[j].label \in KeywordLabels(table))

\* C7 (as claimed): the element scope holds the eight declaration keywords,
\* each with its snippet body, and the five element keywords exactly
\* outside a global block
C7_KeywordsWithBodies ==
    ElementScopeCase =>
        /\ result.some
        /\ HasKeywords(result, DeclarationKeywords, TRUE)
        /\ IF request.node.parent_keyword # "global"
           THEN HasKeywords(result, ElementKeywords, TRUE)
           ELSE NoKeywords(result, ElementKeywords)

\* C7 (amended): the keywords carry their snippet body when the client
\* supports snippets and no insertion text when it does not
C7_KeywordsSnippetAware ==
    ElementScopeCase =>
        /\ result.some
        /\ HasKeywords(result, DeclarationKeywords, request.snippet_support)
        /\ IF request.node.parent_keyword # "global"
           THEN HasKeywords(result, ElementKeywords, request.snippet_support)
           ELSE NoKeywords(result, ElementKeywords)

C7_Witness ==
    /\ ElementScopeCase /\ request.node.parent_keyword = "global"
    /\ ~request.snippet_support
    /\ HasItem(result, "callback", "KEYWORD") /\ ~HasItem(result, "animate", "KEYWORD")

\* the element keywords offered with their bodies outside a global block
C7_ElementKeywordsReached ==
    /\ ElementScopeCase /\ request.node.parent_keyword = "component"
    /\ request.snippet_support /\ HasKeywords(result, ElementKeywords, TRUE)

\* the next token after the cursor's token that is not a blank is `{`
FollowedByBrace(next) ==
    \E i \in DOMAIN next :
        next[i] = "LBrace" /\ \A j \in 1..(i - 1) : next[j] = "Whitespace"

IsImportCandidate(c) == c.additional_text_edits # <<>>

\* the component name of a class candidate
ClassName(c) == IF IsImportCandidate(c) THEN c.filter_text ELSE c.label

\* what C8 states about the candidates other than the class candidates
SnippetsOfMembers(res, snippet_support) ==
    \A i \in DOMAIN res.val :
        LET c == res.val[i]
        IN  IF snippet_support
            THEN /\ c.kind = "PROPERTY" => c.insert_text = c.label \o ": $1;"
                 /\ c.kind = "METHOD" => c.insert_text = c.label \o " => {$1}"
            ELSE c.insert_text = NoText /\ c.insert_text_format = NoText

\* C8 (as claimed): with snippet support properties, methods and classes
\* carry their snippets, a class carrying no insertion text before `{`;
\* without snippet support nothing carries an insertion
C8_Snippets ==
    ElementScopeCase =>
        /\ SnippetsOfMembers(result, request.snippet_support)
        /\ request.snippet_support =>
              \A i \in DOMAIN result.val :
                  result.val[i].kind = "CLASS" =>
                      result.val[i].insert_text =
                          IF FollowedByBrace(request.token.next) THEN NoText
                          ELSE ClassName(result.val[i]) \o " {$1}"

\* C8 (amended): before `{` a class of the registry carries no insertion
\* text and an import candidate carries the bare component name
C8_SnippetsImportAware ==
    ElementScopeCase =>
        /\ SnippetsOfMembers(result, request.snippet_support)
        /\ request.snippet_support =>
              \A i \in DOMAIN result.val :
                  result.val[i].kind = "CLASS" =>
                      result.val[i].insert_text =
                          IF ~FollowedByBrace(request.token.next)
                          THEN ClassName(result.val[i]) \o " {$1}"
                          ELSE IF IsImportCandidate(result.val[i])
                               THEN ClassName(result.val[i])
                               ELSE NoText

C8_Witness ==
    /\ ElementScopeCase /\ request.snippet_support
    /\ request.token.next = <<"Whitespace", "Whitespace", "LBrace">>
    /\ \E i \in DOMAIN result.val :
          result.val[i].label = "Bar" /\ result.val[i].kind = "CLASS"
          /\ result.val[i].insert_text = NoText
    /\ \E i \in DOMAIN result.val : IsImportCandidate(result.val[i])
    /\ \E i \in DOMAIN result.val : result.val[i].insert_text = "red: $1;"

\* a qualified name in an expression, under a lookup context
QualifiedExpressionCase ==
    /\ Done /\ request.node.kind = "QualifiedName" /\ request.token.kind # "StringLiteral"
    /\ request.node.parent_kind = "Expression" /\ request.node.ctx # "none"

\* the positions of the identifier tokens before the cursor's token
SegmentPositions(req) ==
    {i \in DOMAIN req.node.qtokens :
        i < req.node.cursor /\ req.node.qtokens[i].kind = "Identifier"}

\* the k-th smallest element of a set of numbers
RECURSIVE Nth(_, _)
Nth(S, k) ==
    LET m == CHOOSE x \in S : \A y \in S : x <= y
    IN  IF k = 1 THEN m ELSE Nth(S \ {m}, k - 1)

\* the segments before the cursor, normalized, in order
Segments(req) ==
    [k \in 1..Cardinality(SegmentPositions(req)) |->
        normalize_identifier(req.node.qtokens[Nth(SegmentPositions(req), k)].text)]

\* each segment is an entry of the object its predecessors name
AllResolve(ctx, segs) ==
    \A k \in DOMAIN segs :
        \E i \in DOMAIN Members(ctx, SubSeq(segs, 1, k - 1)) :
            Members(ctx, SubSeq(segs, 1, k - 1))[i].name = segs[k]

\* up to the cursor's token there is a dot after the last segment
EndsWithDot(req) ==
    \E d \in DOMAIN req.node.qtokens :
        /\ d <= req.node.cursor /\ req.node.qtokens[d].kind = "Dot"
        /\ \A i \in SegmentPositions(req) : i < d

MemberNames(ctx, path) == {Members(ctx, path)[i].name : i \in DOMAIN Members(ctx, path)}

\* C9: when every segment before the cursor resolves, the answer is exactly
\* the entries of the last resolved object if the tokens up to the cursor
\* end with a dot, and None otherwise
C9_ChainMembers ==
    (QualifiedExpressionCase /\ SegmentPositions(request) # {}
        /\ AllResolve(request.node.ctx, Segments(request))) =>
        IF EndsWithDot(request)
        THEN /\ result.some
             /\ Labels(result.val) = MemberNames(request.node.ctx, Segments(request))
             /\ Len(result.val) = Cardinality(Labels(result.val))
        ELSE result = None

C9_Witness ==
    /\ QualifiedExpressionCase /\ Segments(request) = <<"param", "bar">>
    /\ EndsWithDot(request)
    /\ result.some /\ Labels(result.val) = {"xx", "yy"} /\ Len(result.val) = 2

\* a resolved chain that does not end with a dot
C9_NoDotReached ==
    /\ QualifiedExpressionCase /\ Segments(request) = <<"param", "bar">>
    /\ ~EndsWithDot(request) /\ result = None

\* C10: when no identifier precedes the cursor's token in the qualified
\* name, the answer is the list of resolve_expression_scope
C10_FallbackToScope ==
    (QualifiedExpressionCase /\ SegmentPositions(request) = {}) =>
        /\ result = resolve_expression_scope(request.node.ctx)
        /\ IsExpressionScope(result, request.node.ctx)

C10_Witness ==
    /\ QualifiedExpressionCase /\ SegmentPositions(request) = {}
    /\ request.node.qtokens[request.node.cursor].text = "bar"
    /\ Len(request.node.qtokens) > request.node.cursor
    /\ result.some /\ "alpha" \in Labels(result.val) /\ ~("xx" \in Labels(result.val))

\* the import candidates of a result and the classes offered without import
ImportCandidates(res) == {i \in DOMAIN res.val : IsImportCandidate(res.val[i])}

PlainClasses(res) ==
    {res.val[i].label : i \in {j \in DOMAIN res.val :
                                  res.val[j].kind = "CLASS" /\ ~IsImportCandidate(res.val[j])}}

\* the names exported as a component by at least `n` documents the scan visits
ExportedBy(dc, file, n) ==
    LET scan == ExportScan(dc, file)
    IN  {nm \in {scan[i].name : i \in DOMAIN scan} :
            Cardinality({i \in DOMAIN scan : scan[i].name = nm /\ scan[i].k = "Component"}) >= n}

\* C11: no import candidate names a class that the result offers without
\* import, and no two import candidates name the same exported component
C11_ImportOnlyNew ==
    (Done /\ result.some) =>
        \A i \in ImportCandidates(result) :
            /\ result.val[i].filter_text \notin PlainClasses(result)
            /\ \A j \in ImportCandidates(result) :
                  result.val[j].filter_text = result.val[i].filter_text => i = j

\* Button is exported by two documents and offered once; Bar is exported by
\* lib.slint but visible already, and is not offered for import
C11_Witness ==
    /\ Done /\ result.some
    /\ "Button" \in ExportedBy(documents, request.token.file, 2)
    /\ "Bar" \in ExportedBy(documents, request.token.file, 1)
    /\ "Bar" \in PlainClasses(result)
    /\ Cardinality({i \in ImportCandidates(result) : result.val[i].filter_text = "Button"}) = 1
    /\ \A i \in ImportCandidates(result) : result.val[i].filter_text # "Bar"

\* a request in whose context completion_at offers classes and, for a
\* token of a loaded document, the components to import
ImportContext(req) ==
    /\ req.token.kind # "StringLiteral" /\ req.snippet_support
    /\ \/ req.node.kind = "Element" /\ ~IsAtTrigger(req.token)
             /\ req.node.parent_keyword # "global"
       \/ req.node.kind = "QualifiedName" /\ req.node.parent_kind = "Element"

ImportNames(res) == {res.val[i].filter_text : i \in ImportCandidates(res)}

\* C12: once the import edit of a candidate was applied and the document
\* reloaded, a request in the same place offers the component as a class
\* of the registry and no longer as an import candidate
C12_AcceptedIsPlainClass ==
    (Done /\ accepted # {} /\ ImportContext(request)) =>
        /\ result.some
        /\ accepted \subseteq PlainClasses(result)
        /\ accepted \cap ImportNames(result) = {}

\* Button was imported by a new statement and is offered as a class, while
\* another component is still offered for import
C12_Witness ==
    /\ Done /\ accepted = {"Button"} /\ ImportContext(request)
    /\ request.node.kind = "Element"
    /\ "Button" \in PlainClasses(result)
    /\ "Button" \notin ImportNames(result)
    /\ "Slider" \in ImportNames(result)
    /\ Len(get_document(documents, request.token.file).val.imports) = 1

\* an accepted edit that appended the name to an existing import statement
C12_AppendReached ==
    /\ Done /\ accepted = {"Slider"} /\ ImportContext(request)
    /\ "Slider" \in PlainClasses(result)
    /\ get_document(documents, request.token.file).val.imports =
          <<Import("std-widgets.slint", FALSE, 0, 27),
            Import("sub/other.slint", TRUE, 46, 72)>>

\* the file an import statement's path names (the type loader's resolution
\* of the path against the directory of main.slint)
ImportTarget(text) ==
    CASE text \in {"lib.slint", "./lib.slint"} -> "lib.slint"
      [] text \in {"sub/other.slint", "./sub/other.slint"} -> "other.slint"
      [] OTHER -> text

\* the import statements of the document, with an identifier list, that
\* import from the file `path`
ImportsFrom(doc, path) ==
    {i \in DOMAIN doc.imports :
        doc.imports[i].has_ids /\ ImportTarget(doc.imports[i].file) = path}

\* the exporting files of the component an import candidate names
SourcesOf(c, dc, file) ==
    LET scan == ExportScan(dc, file)
    IN  {scan[i].path : i \in {j \in DOMAIN scan :
            /\ scan[j].k = "Component" /\ scan[j].name = c.filter_text
            /\ c.detail = "(import from \"" \o scan[j].file \o "\")"}}

\* the edit appends `, Name` after the last identifier of statement i
AppendsTo(c, doc, i) ==
    c.additional_text_edits =
        <<TextEdit(map_position(doc, doc.imports[i].last_id_end), ", " \o c.filter_text)>>

CurrentDoc == get_document(documents, request.token.file)

\* a request answered with the import synthesis for a loaded document
ImportSynthesisCase ==
    /\ Done /\ ImportContext(request) /\ result.some
    /\ CurrentDoc.some /\ CurrentDoc.val.has_node

\* C13 (as claimed): when the document has an import statement from the
\* file that exports the component, the candidate's edit inserts `, Name`
\* after the last identifier of such a statement
C13_AppendsToExistingImport ==
    ImportSynthesisCase =>
        \A j \in ImportCandidates(result) :
            \A p \in SourcesOf(result.val[j], documents, request.token.file) :
                ImportsFrom(CurrentDoc.val, p) # {} =>
                    \E i \in ImportsFrom(CurrentDoc.val, p) :
                        AppendsTo(result.val[j], CurrentDoc.val, i)

\* C13 (where the statement's path is written as the relative path of the
\* exporting file): the edit appends to the last such statement
C13_SameSpellingAppends ==
    ImportSynthesisCase =>
        \A j \in ImportCandidates(result) :
            LET same == {i \in DOMAIN CurrentDoc.val.imports :
                            /\ CurrentDoc.val.imports[i].has_ids
                            /\ result.val[j].detail =
                                 "(import from \"" \o CurrentDoc.val.imports[i].file \o "\")"}
            IN  same # {} =>
                    AppendsTo(result.val[j], CurrentDoc.val,
                              CHOOSE i \in same : \A k \in same : k <= i)

\* Slider is appended to the import from sub/other.slint
C13_AppendReached ==
    /\ ImportSynthesisCase
    /\ \E j \in ImportCandidates(result) :
          /\ result.val[j].filter_text = "Slider"
          /\ result.val[j].additional_text_edits[1].new_text = ", Slider"
          /\ result.val[j].additional_text_edits[1].range_start = Position(1, 10)

\* the import candidates whose edit is a new import statement
NewStatementCandidates(res) ==
    {j \in ImportCandidates(res) :
        res.val[j].additional_text_edits[1].new_text # ", " \o res.val[j].filter_text}

\* the index of the first token that is neither a comment nor whitespace
FirstSubstantive(leading) ==
    CHOOSE k \in DOMAIN leading :
        /\ leading[k].kind \notin {"Comment", "Whitespace"}
        /\ \A i \in 1..(k - 1) : leading[i].kind \in {"Comment", "Whitespace"}

\* the start of the run of comments, separated by single newlines only,
\* that ends at the first substantive token; that token's start without one
HeaderStart(leading) ==
    LET k == FirstSubstantive(leading)
        breaks == {i \in 1..(k - 1) : leading[i].kind = "Whitespace" /\ leading[i].text # "\n"}
        from == IF breaks = {} THEN 1 ELSE 1 + CHOOSE i \in breaks : \A b \in breaks : b <= i
        run == {i \in from..(k - 1) : leading[i].kind = "Comment"}
    IN  IF run = {} THEN leading[k].start
        ELSE leading[CHOOSE i \in run : \A r \in run : i <= r].start

\* the largest end of an import statement of the document
LastImportEnd(doc) ==
    CHOOSE e \in {doc.imports[i].end : i \in DOMAIN doc.imports} :
        \A i \in DOMAIN doc.imports : doc.imports[i].end <= e

\* C14: a new import statement goes to column 0 of the line after the end
\* of the last import; in a document without import, to the start of the
\* run of comments separated by single newlines that ends at the first
\* substantive token, or to that token's start when there is no such run
C14_NewImportPosition ==
    ImportSynthesisCase =>
        \A j \in NewStatementCandidates(result) :
            result.val[j].additional_text_edits[1].range_start =
                IF CurrentDoc.val.imports # <<>>
                THEN Position(map_position(CurrentDoc.val,
                                           LastImportEnd(CurrentDoc.val)).line + 1, 0)
                ELSE map_position(CurrentDoc.val, HeaderStart(CurrentDoc.val.leading))

\* a blank line splits the comments: the statement goes before the second
\* comment, on line 2
C14_Witness ==
    /\ ImportSynthesisCase /\ CurrentDoc.val.imports = <<>>
    /\ Len(CurrentDoc.val.leading) = 4
    /\ CurrentDoc.val.leading[1].kind = "Comment"
    /\ CurrentDoc.val.leading[2].text = "\n\n"
    /\ CurrentDoc.val.leading[3].kind = "Comment"
    /\ \E j \in NewStatementCandidates(result) :
          result.val[j].additional_text_edits[1].range_start = Position(2, 0)

\* a new statement after the last of two imports
C14_AfterImportsReached ==
    /\ ImportSynthesisCase /\ Len(CurrentDoc.val.imports) = 2
    /\ \E j \in NewStatementCandidates(result) :
          result.val[j].additional_text_edits[1].range_start = Position(2, 0)

\* a comment, an indented comment, the component: the statement goes
\* before the second comment, at column 1
C14_IndentReached ==
    /\ ImportSynthesisCase /\ CurrentDoc.val.imports = <<>>
    /\ Len(CurrentDoc.val.leading) = 4
    /\ CurrentDoc.val.leading[2].text = "\n "
    /\ CurrentDoc.val.leading[3].kind = "Comment"
    /\ \E j \in NewStatementCandidates(result) :
          result.val[j].additional_text_edits[1].range_start = Position(1, 1)

\* the names exported as a non-global component by a document of the store
ExportedComponents(dc) ==
    UNION {{dc.docs[f].exports[i].name :
               i \in {k \in DOMAIN dc.docs[f].exports : dc.docs[f].exports[k].k = "Component"}} :
           f \in {g \in DOMAIN dc.docs : dc.docs[g].present}}

\* C15: import candidates come only with snippet support, only in an
\* element body outside a global block or in a qualified name in element
\* position; each is a CLASS candidate for an exported non-global
\* component and carries exactly one additional text edit
C15_ImportCandidatesOnlyWhere ==
    (Done /\ result.some) =>
        /\ ImportCandidates(result) # {} => ImportContext(request)
        /\ \A j \in ImportCandidates(result) :
              /\ result.val[j].kind = "CLASS"
              /\ Len(result.val[j].additional_text_edits) = 1
              /\ result.val[j].filter_text \in ExportedComponents(documents)

\* import candidates in a qualified name in element position; the global
\* Glob and the struct S2 that lib.slint exports are not among them
C15_Witness ==
    /\ Done /\ result.some /\ request.node.kind = "QualifiedName"
    /\ request.node.parent_kind = "Element" /\ request.snippet_support
    /\ ImportNames(result) = {"Button", "Slider", "LineEdit"}

\* a global block with snippet support: classes may be offered, no import
C15_GlobalBlockReached ==
    /\ ElementScopeCase /\ request.snippet_support
    /\ request.node.parent_keyword = "global"
    /\ CurrentDoc.some /\ CurrentDoc.val.has_node
    /\ "Bar" \in PlainClasses(result) /\ ImportCandidates(result) = {}

\* no snippet support in a qualified name in element position: no import
C15_NoSnippetReached ==
    /\ Done /\ result.some /\ request.node.kind = "QualifiedName"
    /\ request.node.parent_kind = "Element" /\ ~request.snippet_support
    /\ CurrentDoc.some /\ CurrentDoc.val.has_node
    /\ "Bar" \in PlainClasses(result) /\ ImportCandidates(result) = {}

\* a string literal (its text begins with the quote) in an import
\* statement or in @image-url
PathCase ==
    /\ Done /\ request.token.kind = "StringLiteral"
    /\ request.node.kind \in {"ImportSpecifier", "AtImageUrl"}
    /\ request.token.text # <<>> /\ Head(request.token.text) = "\""

\* the cursor's offset from the start of the token
CursorInToken == request.offset - request.token.start

\* the directory named by the text between the quote and the cursor, up to
\* its last slash
TypedDirectory ==
    LET typed == SubSeq(request.token.text, 2, CursorInToken)
        slashes == {0} \cup {i \in DOMAIN typed : typed[i] = "/"}
        last == CHOOSE i \in slashes : \A k \in slashes : k <= i
    IN  read_dir(SubSeq(typed, 1, last - 1))

NoPathResult ==
    \/ CursorInToken <= 0
    \/ CursorInToken > Len(request.token.text)
    \/ ~TypedDirectory.some

\* the candidate of a directory entry
IsCandidateOf(c, e) ==
    /\ c.label = e.name
    /\ IF e.is_dir THEN c.kind = "FOLDER" /\ c.insert_text = e.name \o "/"
       ELSE c.kind = "FILE" /\ c.insert_text = NoText

\* C16 (as claimed): None at or before the opening quote, past the token's
\* text and for a directory that cannot be read; otherwise every directory
\* entry has its file or folder candidate
C16_PathCompletion ==
    PathCase =>
        IF NoPathResult THEN result = None
        ELSE /\ result.some
             /\ \A i \in DOMAIN TypedDirectory.val :
                   \E j \in DOMAIN result.val :
                       IsCandidateOf(result.val[j], TypedDirectory.val[i])

\* C16 (amended): the candidates are those of the entries whose name and
\* type can be read, in the directory's order, followed in an import path
\* whose text has no slash by the file candidate std-widgets.slint
C16_PathCompletionReadable ==
    PathCase =>
        IF NoPathResult THEN result = None
        ELSE LET ok == SelectSeq(TypedDirectory.val, LAMBDA e : e.readable)
                 std == request.node.kind = "ImportSpecifier"
                        /\ \A i \in DOMAIN request.token.text : request.token.text[i] # "/"
             IN  /\ result.some
                 /\ Len(result.val) = Len(ok) + (IF std THEN 1 ELSE 0)
                 /\ \A i \in DOMAIN ok : IsCandidateOf(result.val[i], ok[i])
                 /\ std => /\ result.val[Len(result.val)].label = "std-widgets.slint"
                           /\ result.val[Len(result.val)].kind = "FILE"

\* the cursor after `"s/`: the one file of the folder s
C16_Witness ==
    /\ PathCase /\ request.token.text = <<"\"", "s", "/">> /\ CursorInToken = 3
    /\ result.some /\ Len(result.val) = 1
    /\ IsCandidateOf(result.val[1], DirEntry("x.png", FALSE, TRUE))

\* the base directory: a file, a folder, and the entry that is dropped
C16_FolderReached ==
    /\ PathCase /\ request.node.kind = "AtImageUrl" /\ CursorInToken = 1
    /\ result.some /\ Len(result.val) = 2
    /\ result.val[2].kind = "FOLDER" /\ result.val[2].insert_text = "s/"

C16_AtQuoteReached == PathCase /\ CursorInToken = 0 /\ result = None

C16_PastTextReached ==
    PathCase /\ CursorInToken = Len(request.token.text) + 1 /\ result = None

C16_UnreadableReached ==
    /\ PathCase /\ CursorInToken \in 1..Len(request.token.text)
    /\ ~TypedDirectory.some /\ result = None

StringLiteralCase == Done /\ request.token.kind = "StringLiteral"

PathPosition == request.node.kind \in {"ImportSpecifier", "AtImageUrl"}

\* C17 (as claimed): a string literal outside an import path and an image
\* url is answered by the context of its enclosing node: the expression
\* scope in an expression, the top-level keywords in the document
C17_StringLiteralFallsThrough ==
    (StringLiteralCase /\ ~PathPosition) =>
        /\ request.node.kind \in ExpressionNodeKinds /\ request.node.ctx # "none"
              => IsExpressionScope(result, request.node.ctx)
        /\ request.node.kind = "Document"
              => result = Some(KeywordItems(DocumentKeywords, request.snippet_support))
        /\ request.node.kind = "Element" => result.some

\* C17 (amended): the path context is entered only for a string literal in
\* an import path or an image url, where the answer is None or a list of
\* files and folders; a string literal anywhere else is answered None
C17_StringLiteralOnlyPaths ==
    /\ StringLiteralCase =>
          IF PathPosition
          THEN result.some => \A i \in DOMAIN result.val :
                                  result.val[i].kind \in {"FILE", "FOLDER"}
          ELSE result = None
    /\ (Done /\ result.some /\ \E i \in DOMAIN result.val :
                                  result.val[i].kind \in {"FILE", "FOLDER"})
          => StringLiteralCase /\ PathPosition

\* a string literal in an expression, the cursor inside it: None
C17_Witness ==
    /\ StringLiteralCase /\ request.node.kind = "Expression" /\ request.node.ctx = "plain"
    /\ request.token.text = <<"\"", "s", "\"">> /\ CursorInToken = 2
    /\ result = None

\* the token is `@` or an identifier right after `@`
AtTriggerCase ==
    /\ Done
    /\ \/ request.token.kind = "At"
       \/ request.token.kind = "Identifier" /\ request.token.prev_at

LabelSeq(res) == [i \in DOMAIN res.val |-> res.val[i].label]

\* C18: on `@`, and on an identifier right after `@`, an element body is
\* answered with the one candidate children and an expression-bearing node
\* with the four built-ins, whatever the scope and the lookup context hold
C18_AtTriggerOnly ==
    AtTriggerCase =>
        /\ request.node.kind = "Element" =>
              /\ result.some /\ LabelSeq(result) = <<"children">>
              /\ result.val[1].kind = NoKind /\ result.val[1].additional_text_edits = <<>>
        /\ request.node.kind \in ExpressionNodeKinds =>
              /\ result.some
              /\ LabelSeq(result) = <<"tr", "image-url", "linear-gradient", "radial-gradient">>

\* an identifier after `@` in an expression whose scope has entries
C18_Witness ==
    /\ AtTriggerCase /\ request.token.kind = "Identifier"
    /\ request.node.kind = "BinaryExpression" /\ request.node.ctx = "handler"
    /\ ExpressionScopeNames(request.node.ctx) # {}
    /\ result.some /\ Labels(result.val) \cap ExpressionScopeNames(request.node.ctx) = {}
    /\ Len(result.val) = 4

\* `@` in the body of an element of type Bar: children alone
C18_ChildrenReached ==
    /\ AtTriggerCase /\ request.token.kind = "At" /\ request.node.kind = "Element"
    /\ request.node.element.resolved = Some(BarType)
    /\ result.some /\ LabelSeq(result) = <<"children">>

OuterOnly(req) ==
    {req.node.outer_props[i].name : i \in DOMAIN req.node.outer_props}
    \ ({DeclaredName(req.node.element.props[i].name) : i \in DOMAIN req.node.element.props}
       \cup {ResolvedType(req.node.element).props[i].name :
                i \in DOMAIN ResolvedType(req.node.element).props}
       \cup {reserved_properties[i].name : i \in DOMAIN reserved_properties})

\* the cursor in the body of the sub-element bobo
InSubElementBody == ElementScopeCase /\ request.node.element = Bobo

\* the cursor in the value of a binding of bobo
InSubElementBinding ==
    /\ Done /\ request.token.kind # "StringLiteral" /\ request.node.element = Bobo
    /\ request.node.ctx = "plain"
    /\ \/ request.node.kind = "Binding" /\ PastSeparator(request)
       \/ request.node.kind = "BindingExpression" /\ ~IsAtTrigger(request.token)

\* C20: in the body of a sub-element of type Bar the properties of Bar are
\* property candidates and a property that only the enclosing component
\* declares is no candidate; in an expression bound to a property of that
\* element the enclosing component's alpha and the element's own beta are
\* candidates, the members of Bar's type and Bar's inner ids are not
C20_SubElementScopes ==
    /\ InSubElementBody =>
          /\ result.some
          /\ HasItem(result, "red", "PROPERTY") /\ HasItem(result, "text", "PROPERTY")
          /\ Labels(result.val) \cap OuterOnly(request) = {}
    /\ InSubElementBinding =>
          /\ result.some
          /\ OuterOnly(request) \subseteq Labels(result.val)
          /\ \A i \in DOMAIN request.node.element.props :
                DeclaredName(request.node.element.props[i].name) \in Labels(result.val)
          /\ Labels(result.val) \cap {"red", "text", "nope"} = {}

C20_Witness ==
    /\ InSubElementBinding /\ request.node.kind = "Binding"
    /\ OuterOnly(request) = {"alpha"}
    /\ {"alpha", "beta", "bobo", "funi"} \subseteq Labels(result.val)
    /\ ~("red" \in Labels(result.val))

C20_BodyReached ==
    /\ InSubElementBody /\ OuterOnly(request) = {"alpha"}
    /\ HasItem(result, "red", "PROPERTY") /\ HasItem(result, "beta", "PROPERTY")
    /\ ~("alpha" \in Labels(result.val))

\* the normalized names of the parameters a lookup context declares
ParameterNames(ctx) ==
    {normalize_identifier(DeclaredParameters(ctx)[i].name) :
        i \in DOMAIN DeclaredParameters(ctx)}

\* the cursor's token is a direct child of a callback connection
InConnection == Done /\ request.node.kind = "CallbackConnection"

\* the cursor is in an expression of a handler's or a function's body
InParameterBody ==
    /\ Done /\ request.node.kind \in ExpressionNodeKinds
    /\ request.token.kind # "StringLiteral" /\ ~IsAtTrigger(request.token)
    /\ DeclaredParameters(request.node.ctx) # <<>>

\* C21: a token that is a direct child of a callback connection is answered
\* with None or with callback-kind candidates of the parent element only,
\* never with the expression scope or a parameter; in an expression of the
\* handler's (or a function's) body every declared parameter is a candidate
\* of kind VARIABLE under its normalized name
C21_ConnectionParameters ==
    /\ InConnection =>
          /\ result.some =>
                /\ \A i \in DOMAIN result.val :
                      /\ result.val[i].kind = "METHOD"
                      /\ InSeq(result.val[i], ParentElementItems)
                /\ Labels(result.val) \cap ParameterNames(request.node.ctx) = {}
          /\ request.node.ctx # "none" => result # resolve_expression_scope(request.node.ctx)
    /\ InParameterBody =>
          /\ result.some
          /\ \A n \in ParameterNames(request.node.ctx) : HasItem(result, n, "VARIABLE")

\* the body of `function xxx(beta_gamma: string)` offers beta-gamma
C21_Witness ==
    /\ InParameterBody /\ request.node.ctx = "function"
    /\ request.node.kind = "CodeBlock"
    /\ HasItem(result, "beta-gamma", "VARIABLE")
    /\ ~("beta_gamma" \in Labels(result.val))

\* past the arrow of a connection with a handler context the callbacks of
\* the parent element are the only candidates
C21_ConnectionReached ==
    /\ InConnection /\ PastSeparator(request) /\ request.node.ctx = "handler"
    /\ request.token.kind = "Identifier"
    /\ result.some /\ HasItem(result, "clicked", "METHOD")

\* a non-identifier token past the arrow is answered with None
C21_NoneReached ==
    /\ InConnection /\ PastSeparator(request) /\ request.node.ctx = "handler"
    /\ request.token.kind = "Whitespace" /\ result = None

\* a qualified name in an expression with an identifier before the cursor
DanglingCase ==
    /\ Done /\ request.node.kind = "QualifiedName" /\ request.token.kind # "StringLiteral"
    /\ request.node.parent_kind = "Expression"
    /\ SegmentPositions(request) # {}
    /\ ~AllResolve(request.node.ctx, Segments(request))

\* C22: when the first segment of a qualified name in an expression is no
\* entry of the global lookup object, or a later segment before the cursor
\* is no entry of the object its predecessors resolve to, the request is
\* answered, and the answer is None
C22_DanglingIsNone == DanglingCase => result = None

\* `param.b_r.` in a handler: param resolves, b-r is no member of it, and
\* the members of param are not offered
C22_Witness ==
    /\ DanglingCase /\ request.node.ctx = "handler"
    /\ Segments(request) = <<"param", "b-r">> /\ EndsWithDot(request)
    /\ request.node.qtokens[request.node.cursor].kind = "Dot"
    /\ result = None

\* `param.` outside a handler: the first segment does not resolve
C22_FirstReached ==
    /\ DanglingCase /\ request.node.ctx = "plain"
    /\ Segments(request) = <<"param">> /\ EndsWithDot(request)
    /\ result = None

\* a request made in the state NeedsReload changes neither the state nor
\* the tasks, and the only way out of NeedsReload is the end of the load,
\* after which the one task is back at the head of its loop
OneMoreRound ==
    loading_state = "NeedsReload" =>
        \/ loading_state' = "NeedsReload" /\ Len(tasks') = 1 /\ Len(tasks) = 1
        \/ /\ loading_state' = "PreLoading"
           /\ tasks' = <<Task("loop", None, None)>>
           /\ preview_area' = tasks[1].preview_component

\* the original statement of C23, as far as one step shows it: every call of
\* load_preview during a load marks the load as outdated without starting
\* a task, and an outdated load ends in one more round of the one loop
C23_RequestWhileLoading ==
    [][/\ \A c \in PreviewComponents :
            (loading_state = "Loading" /\ LoadPreview(c)) =>
                loading_state' = "NeedsReload" /\ tasks' = tasks
       /\ OneMoreRound]_vars

\* C23: a call of load_preview made during a load while the UI is visible
\* sets the state to NeedsReload, stores its component and starts no task;
\* further calls change nothing; when the load ends the one task goes back
\* to the head of its loop in the state PreLoading, and from there, if the
\* UI is still visible, to Loading with the component of the latest call,
\* and otherwise to Pending without loading
C23_RequestWhileLoadingVisible ==
    [][/\ \A c \in PreviewComponents :
            (loading_state = "Loading" /\ ui_is_visible /\ LoadPreview(c)) =>
                loading_state' = "NeedsReload" /\ tasks' = tasks /\ current' = Some(c)
       /\ \A c \in PreviewComponents :
            (loading_state = "Loading" /\ ~ui_is_visible /\ LoadPreview(c)) =>
                loading_state' = "Loading" /\ tasks' = tasks /\ current' = Some(c)
       /\ OneMoreRound
       /\ (loading_state = "PreLoading" /\ loading_state' # "PreLoading") =>
             IF ui_is_visible
             THEN /\ loading_state' = "Loading"
                  /\ tasks' = <<Task("reload", current, Some(config))>>
             ELSE loading_state' = "Pending" /\ tasks' = <<>>]_vars

\* a load was marked as outdated by a request for another component
C23_Witness ==
    /\ loading_state = "NeedsReload"
    /\ Len(tasks) = 1 /\ tasks[1].at = "await"
    /\ current.some /\ tasks[1].preview_component # current
    /\ calls >= 3

\* the second round of the loop loads the component of the latest request
\* while the preview area still shows the one loaded first
C23_SecondRoundReached ==
    /\ loading_state = "Loading"
    /\ tasks = <<Task("reload", current, Some(config))>>
    /\ preview_area.some /\ preview_area # current
    /\ calls = 2

\* a request made during a load with the UI closed
C23_HiddenRequestReached ==
    /\ loading_state = "Loading" /\ ~ui_is_visible
    /\ Len(tasks) = 1 /\ current.some /\ tasks[1].preview_component # current

\* C24: no assertion fails and no unreachable arm is entered: whenever a
\* task is at the head of its loop the state is PreLoading, and whenever a
\* task is in the reload the state is Loading or NeedsReload
C24_AssertionsHold ==
    /\ panicked = NoText
    /\ \A i \in DOMAIN tasks :
          IF tasks[i].at = "loop"
          THEN loading_state = "PreLoading"
          ELSE loading_state \in {"Loading", "NeedsReload"}

\* the loop is back at its head after an outdated load, with the UI closed
\* in between and every call made
C24_Witness ==
    /\ panicked = NoText
    /\ tasks = <<Task("loop", None, None)>> /\ loading_state = "PreLoading"
    /\ preview_area.some /\ ~ui_is_visible
    /\ config # NewPreviewConfig(None) /\ current_style = "fluent"
    /\ calls = MaxCalls

\* the awaited reload ends in the state NeedsReload
C24_AfterAwaitReached ==
    /\ panicked = NoText /\ loading_state = "NeedsReload"
    /\ \E i \in DOMAIN tasks : tasks[i].at = "await"
    /\ source_code["a.slint"] = "v2"

\* C25: there is never more than one task running the reload loop; a task
\* is started only by a step that takes the state from Pending to
\* PreLoading, and as long as the task has not returned the state is not
\* Pending
C25_OneLoop ==
    [][/\ Len(tasks') <= 1
       /\ tasks' # <<>> => loading_state' # "Pending"
       /\ Len(tasks') > Len(tasks) =>
             loading_state = "Pending" /\ loading_state' = "PreLoading"]_vars

\* every call was a request made while the one loop was active
C25_Witness ==
    /\ Len(tasks) = 1 /\ loading_state = "NeedsReload"
    /\ calls = MaxCalls /\ ui_is_visible
    /\ ~preview_area.some

\* the loop has returned after two rounds and a new one was started
C25_NewLoopReached ==
    /\ tasks = <<Task("loop", None, None)>> /\ loading_state = "PreLoading"
    /\ preview_area = Some(NewPreviewComponent("b.slint", "fluent"))
    /\ current = Some(NewPreviewComponent("a.slint", ""))
    /\ dependency = {"b.slint"}

\* a reload is owed: the loop is about to start, or to start again
ReloadOwed == loading_state \in {"PreLoading", "NeedsReload"}

\* the loop has just begun a reload of the component `c`
Reading(c) ==
    /\ loading_state = "Loading"
    /\ \E i \in DOMAIN tasks : tasks[i].at = "reload" /\ tasks[i].preview_component = c

\* C26: with the tasks of the UI thread run fairly, every reload coming to
\* an end and no more than MaxCalls calls, the state is in the end Pending
\* for good; a call of load_preview made while the UI is visible, in
\* whatever state, stores its component and leaves a reload owed; and an
\* owed reload is followed, unless the UI is closed meanwhile, by a reload
\* that reads the component of the latest call
C26_NoRequestLost ==
    /\ <>[](loading_state = "Pending")
    /\ (ui_is_visible /\ ReloadOwed) ~> (~ui_is_visible \/ Reading(current))
    /\ [][\A c \in PreviewComponents :
            (ui_is_visible /\ LoadPreview(c)) => current' = Some(c) /\ ReloadOwed']_vars

\* after every call the loop has returned, and the preview area shows the
\* component of the latest call, in its style
C26_Witness ==
    /\ loading_state = "Pending" /\ tasks = <<>>
    /\ calls = MaxCalls /\ ui_is_visible
    /\ current = Some(NewPreviewComponent("b.slint", "fluent"))
    /\ preview_area = current /\ current_style = "fluent"
    /\ dependency = {"a.slint", "b.slint"}

\* a reload is owed for a component other than the one being loaded
C26_OwedReached ==
    /\ ui_is_visible /\ loading_state = "NeedsReload"
    /\ current = Some(NewPreviewComponent("b.slint", "fluent"))
    /\ tasks = <<Task("await", Some(NewPreviewComponent("a.slint", "")),
                      Some(NewPreviewConfig(None)))>>

\* what a request for a reload does to the state and the tasks
ReloadRequested ==
    /\ loading_state' = CASE loading_state = "Pending" -> "PreLoading"
                           [] loading_state = "Loading" -> "NeedsReload"
                           [] OTHER -> loading_state
    /\ Len(tasks') = Len(tasks) + (IF loading_state = "Pending" THEN 1 ELSE 0)

\* C27: a call of set_contents stores the content under the URL and nothing
\* else in the table; when the stored content changes (none was stored, or
\* another one), the URL is among the dependencies, there is a current
\* component and the UI is visible, a reload is requested; in every other
\* case the loading state, the tasks and the current component stay as
\* they are
C27_SetContents ==
    [][\A url \in Urls, content \in Contents :
          SetContents(url, content) =>
             /\ source_code' = [source_code EXCEPT ![url] = content]
             /\ current' = current
             /\ IF /\ url \in dependency
                   /\ source_code[url] # content
                   /\ current.some
                   /\ ui_is_visible
                THEN ReloadRequested
                ELSE loading_state' = loading_state /\ tasks' = tasks]_vars

\* one call of load_preview and one of set_contents: the preview area shows
\* the component, the text of its file was stored after the load and a new
\* round of loading is about to begin
C27_Witness ==
    /\ calls = 2 /\ ui_is_visible
    /\ current = Some(NewPreviewComponent("a.slint", "")) /\ preview_area = current
    /\ source_code = [u \in Urls |-> IF u = "a.slint" THEN "v1" ELSE NoText]
    /\ loading_state = "PreLoading" /\ tasks = <<Task("loop", None, None)>>

\* the text of a file that the load did not read was stored and no reload
\* was requested
C27_NoDependencyReached ==
    /\ calls = 2 /\ ui_is_visible
    /\ current = Some(NewPreviewComponent("a.slint", "")) /\ preview_area = current
    /\ source_code = [u \in Urls |-> IF u = "b.slint" THEN "v1" ELSE NoText]
    /\ dependency = {"a.slint"}
    /\ loading_state = "Pending" /\ tasks = <<>>

\* the same text stored twice for a dependency: no reload the second time
C27_SameContentReached ==
    /\ calls = 3 /\ ui_is_visible
    /\ current = Some(NewPreviewComponent("a.slint", "")) /\ preview_area = current
    /\ source_code["a.slint"] = "v1" /\ source_code["b.slint"] = NoText
    /\ dependency = {"a.slint"} /\ config = NewPreviewConfig(None)
    /\ current_style = "native"
    /\ loading_state = "Pending" /\ tasks = <<>>

====
